---- MODULE Spec2Model ----
(***************************************************************************)
(* Rapid rooted Transfer Index of booster: the alt-tree index (add_leaf /   *)
(* reset_leaf), the HeavyPath Tree built over the alt-tree, and the driver  *)
(* that walks the heavy paths of the reference tree.                        *)
(*                                                                          *)
(* Conventions.  A pointer is the index of its target: a Node* is an index  *)
(* of tree.a_nodes, a Path* an index of paths, NULL is 0.  C arrays start   *)
(* at 0 and sequences at 1, so neigh[j] of the source is neigh[j + 1] here  *)
(* and path[i] is path[i + 1]; loop counters keep the source's values.      *)
(* A NodeArray / LeafArray is the sequence of its first i entries.  A       *)
(* taxon name is a number; strcmp on names is < on numbers.                 *)
(*                                                                          *)
(* compute_transfer_indices_fast (use_HPT = TRUE) and                       *)
(* compute_transfer_indices_fast_BALANCED (use_HPT = FALSE) are run side by *)
(* side on the same pair of trees: the first reads and writes only the      *)
(* Paths, the second only the d_lazy, d_min, d_max, diff, include and       *)
(* exclude fields of the alt-tree nodes, and each has its own ti_min,       *)
(* ti_max and transfer_indices, indexed by use_HPT.                         *)
(*                                                                          *)
(* Left out: branch lengths, supports, hash tables and topo_depth, which    *)
(* the index does not read; the DB_CALL traces; and, in the balanced branch *)
(* of add_heavy_path, min_node / max_node and the two asserts on the        *)
(* balanced transfer sets: get_min_node, transfer_index, transfer_distance  *)
(* and get_transfer_set are defined in none of the source files, and what   *)
(* they compute is stored in no result.  The balanced driver passes         *)
(* getsets = false to add_leaf and reset_leaf.                              *)
(***************************************************************************)
EXTENDS Integers, Sequences, FiniteSets

\* Number of taxa of the two trees.
NTaxa == 4

\* Number of taxa of the alt-tree when add_leaf and add_leaf_HPT run on their own.
NLeafTaxa == 5

\* Preparation on its own: trees of 2 to NPrepTaxa leaves, up to MaxChildren
\* children per node.
NPrepTaxa == 5
MaxChildren == 4

NULL == 0
INT_MAX == 2147483647
INT_MIN == -INT_MAX - 1

min(i1, i2) == IF i1 < i2 THEN i1 ELSE i2
max(i1, i2) == IF i1 > i2 THEN i1 ELSE i2
min3(i1, i2, i3) == min(min(i1, i2), i3)
max3(i1, i2, i3) == max(max(i1, i2), i3)

(***************************************************************************)
(* Input trees.  A shape is <<>> (a leaf) or the tuple of the shapes of its *)
(* children, in neighbour order.                                            *)
(***************************************************************************)
RECURSIVE BinaryShapes(_)
BinaryShapes(n) ==
    IF n = 1 THEN {<<>>}
    ELSE UNION {{<<a, b>> : a \in BinaryShapes(k), b \in BinaryShapes(n - k)} :
                k \in 1..(n - 1)}

\* Shapes whose root is a pseudo-root (3-fan); binary below the root.
PseudoRootShapes(n) ==
    UNION {{<<a, b, c>> : a \in BinaryShapes(kk[1]), b \in BinaryShapes(kk[2]),
                          c \in BinaryShapes(n - kk[1] - kk[2])} :
           kk \in {k2 \in (1..n) \X (1..n) : k2[1] + k2[2] < n}}

\* Shapes with n leaves whose nodes have 2 to MaxChildren children each, the
\* root and the nodes below it alike: the parser takes any number of
\* children.  Forests(n, k) is the set of sequences of k shapes with n leaves
\* in all.
RECURSIVE AnyShapes(_), Forests(_, _)
AnyShapes(n) ==
    IF n = 1 THEN {<<>>} ELSE UNION {Forests(n, k) : k \in 2..MaxChildren}
Forests(n, k) ==
    IF k = 0 THEN (IF n = 0 THEN {<<>>} ELSE {})
    ELSE UNION {{<<a>> \o f : a \in AnyShapes(m), f \in Forests(n - m, k - 1)} :
                m \in 1..(n - k + 1)}

NamePermutations(n) ==
    {f \in [1..n -> 1..n] : \A a, b \in 1..n : a # b => f[a] # f[b]}

\* The number of nodes of a shape; shape_sizes adds up the children from i on.
RECURSIVE shape_size(_), shape_sizes(_, _)
shape_size(s) == 1 + shape_sizes(s, 1)
shape_sizes(s, i) ==
    IF i > Len(s) THEN 0 ELSE shape_size(s[i]) + shape_sizes(s, i + 1)

\* The id of the i-th child (i from 1) of the node `id` of shape s: the nodes
\* are numbered in pre-order, the root is 1.
RECURSIVE child_id(_, _, _)
child_id(s, id, i) ==
    IF i = 1 THEN id + 1 ELSE child_id(s, id, i - 1) + shape_size(s[i - 1])

(***************************************************************************)
(* struct Node as newNode hands it to the parser: the fields the rapid     *)
(* Transfer Index uses.  newNode leaves all but id, name and the neighbour  *)
(* arrays unset; prepare_rapid_TI, set_leaf_bijection and heavypath_leaf    *)
(* write them before anything reads them, so they start here at 0 / NULL /  *)
(* the empty array.  ti_min and ti_max are kept per run (see the variables).*)
(***************************************************************************)
newNode(name, neigh) ==
    [name |-> name, neigh |-> neigh, depth |-> 0, subtreesize |-> 0,
     heavychild |-> NULL, lightleaves |-> <<>>, other |-> NULL, path |-> NULL,
     d_lazy |-> 0, d_min |-> 0, d_max |-> 0, diff |-> 0,
     include |-> <<>>, exclude |-> <<>>]

RECURSIVE shape_nodes(_, _, _), shape_kids(_, _, _, _)
shape_nodes(s, id, parent) ==
    <<newNode(NULL,
               (IF parent = NULL THEN <<>> ELSE <<parent>>)
               \o [i \in 1..Len(s) |-> child_id(s, id, i)])>>
    \o shape_kids(s, id, 1, id + 1)
shape_kids(s, id, i, first) ==
    IF i > Len(s) THEN <<>>
    ELSE shape_nodes(s[i], first, id)
         \o shape_kids(s, id, i + 1, first + shape_size(s[i]))

nneigh(nodes, v) == Len(nodes[v].neigh)

\* The tree parse_nh_string builds from the Newick string of the given shape
\* whose tips carry, from left to right, the names names[1], names[2], ...
\* parse_recur numbers the nodes in the order of their '(' or tip name, so in
\* preorder; it connects every node but the root to its father as it creates
\* it, so edge e joins node e + 1 and its father, which is neigh[0] of the
\* node.  connect_to_father(node, tip) puts a tip on the right of its edge,
\* connect_to_father(new_node, node) puts an internal node on the left.
parse_nh_string(shape, names) ==
    LET raw == shape_nodes(shape, 1, NULL)
        isleaf(v) == Len(raw[v].neigh) = 1
        rank(v) == Cardinality({w \in 1..v : isleaf(w)})
    IN  [a_nodes |-> [v \in 1..Len(raw) |->
                        IF isleaf(v) THEN [raw[v] EXCEPT !.name = names[rank(v)]]
                        ELSE raw[v]],
         node0 |-> 1,
         nb_nodes |-> Len(raw),
         nb_taxa |-> Cardinality({v \in 1..Len(raw) : isleaf(v)}),
         leaves |-> <<>>,
         a_edges |-> [e \in 1..(Len(raw) - 1) |->
                        IF isleaf(e + 1)
                        THEN [left |-> raw[e + 1].neigh[1], right |-> e + 1]
                        ELSE [left |-> e + 1, right |-> raw[e + 1].neigh[1]]],
         nb_edges |-> Len(raw) - 1]

(***************************************************************************)
(* prepare_rapid_TI                                                         *)
(***************************************************************************)
\* dir_a_to_b: the index (from 0) of b among a's neighbours.
dir_a_to_b(nodes, a, b) ==
    CHOOSE i \in 0..(nneigh(nodes, a) - 1) : nodes[a].neigh[i + 1] = b

\* The neighbours the traversals descend to from `current`, in order.
traversal_children(nodes, current, origin) ==
    LET n == nneigh(nodes, current)
    IN  IF origin = NULL THEN nodes[current].neigh
        ELSE [i \in 1..(n - 1) |->
                nodes[current].neigh[((dir_a_to_b(nodes, current, origin) + i) % n) + 1]]

update_node_depths_pre_doer(nodes, target, orig) ==
    IF orig = NULL THEN [nodes EXCEPT ![target].depth = 0]
    ELSE [nodes EXCEPT ![target].depth = nodes[orig].depth + 1]

RECURSIVE pre_order_traversal_recur(_, _, _), pre_order_traversal_kids(_, _, _, _)
pre_order_traversal_recur(nodes, current, origin) ==
    pre_order_traversal_kids(update_node_depths_pre_doer(nodes, current, origin),
                             current, origin, 1)
pre_order_traversal_kids(nodes, current, origin, i) ==
    LET kids == traversal_children(nodes, current, origin)
    IN  IF i > Len(kids) THEN nodes
        ELSE pre_order_traversal_kids(
                 pre_order_traversal_recur(nodes, kids[i], current),
                 current, origin, i + 1)

prepare_rapid_TI_pre(tree) ==
    [tree EXCEPT !.a_nodes = pre_order_traversal_recur(tree.a_nodes, tree.node0, NULL)]

RECURSIVE add_leaves_in_subtree(_, _)
add_leaves_in_subtree(nodes, u) ==
    IF nneigh(nodes, u) = 1 THEN <<u>>
    ELSE IF nodes[u].depth = 0
         THEN add_leaves_in_subtree(nodes, nodes[u].neigh[1])
              \o add_leaves_in_subtree(nodes, nodes[u].neigh[1])
         ELSE add_leaves_in_subtree(nodes, nodes[u].neigh[2])
              \o add_leaves_in_subtree(nodes, nodes[u].neigh[3])

get_leaves_in_subtree(nodes, u) == add_leaves_in_subtree(nodes, u)

\* The loop that finds the heavy child: i is the loop counter, hc the heavy
\* child so far.  The body ends with i++ and the for statement adds its own.
RECURSIVE find_heavychild(_, _, _, _)
find_heavychild(nodes, u, i, hc) ==
    IF i >= nneigh(nodes, u) THEN hc
    ELSE find_heavychild(
             nodes, u, i + 2,
             IF nodes[hc].subtreesize < nodes[nodes[u].neigh[i + 1]].subtreesize
             THEN nodes[u].neigh[i + 1] ELSE hc)

RECURSIVE concat_lightleaves(_, _, _, _)
concat_lightleaves(nodes, u, i, hc) ==
    IF i >= nneigh(nodes, u) THEN <<>>
    ELSE (IF nodes[u].neigh[i + 1] # hc
          THEN get_leaves_in_subtree(nodes, nodes[u].neigh[i + 1]) ELSE <<>>)
         \o concat_lightleaves(nodes, u, i + 1, hc)

setup_heavy_light_subtrees(nodes, u) ==
    IF nneigh(nodes, u) = 1
    THEN [nodes EXCEPT ![u].heavychild = NULL, ![u].lightleaves = <<>>]
    ELSE LET startind == IF nodes[u].depth = 0 THEN 0 ELSE 1
             hc == find_heavychild(nodes, u, startind + 1, nodes[u].neigh[startind + 1])
         IN  [nodes EXCEPT ![u].heavychild = hc,
                           ![u].lightleaves = concat_lightleaves(nodes, u, startind, hc)]

RECURSIVE sum_subtreesize(_, _, _)
sum_subtreesize(nodes, target, i) ==
    IF i >= nneigh(nodes, target) THEN 0
    ELSE nodes[nodes[target].neigh[i + 1]].subtreesize
         + sum_subtreesize(nodes, target, i + 1)

prepare_rapid_TI_doer(tree, target) ==
    LET nodes == tree.a_nodes
        size == IF nneigh(nodes, target) = 1 THEN 1
                ELSE (IF target = tree.node0
                      THEN nodes[nodes[target].neigh[1]].subtreesize ELSE 0)
                     + sum_subtreesize(nodes, target, 1)
        nodes1 == [nodes EXCEPT ![target].subtreesize = size,
                                ![target].diff = 0,
                                ![target].d_lazy = size,
                                ![target].d_max = size,
                                ![target].d_min = 1]
    IN  [tree EXCEPT !.a_nodes = setup_heavy_light_subtrees(nodes1, target),
                     !.leaves = IF nneigh(nodes, target) = 1
                                THEN Append(@, target) ELSE @]

RECURSIVE post_order_traversal_recur(_, _, _), post_order_traversal_kids(_, _, _, _)
post_order_traversal_recur(tree, current, origin) ==
    prepare_rapid_TI_doer(post_order_traversal_kids(tree, current, origin, 1), current)
post_order_traversal_kids(tree, current, origin, i) ==
    LET kids == traversal_children(tree.a_nodes, current, origin)
    IN  IF i > Len(kids) THEN tree
        ELSE post_order_traversal_kids(
                 post_order_traversal_recur(tree, kids[i], current),
                 current, origin, i + 1)

prepare_rapid_TI_post(tree) == post_order_traversal_recur(tree, tree.node0, NULL)

\* sortLA leaving the array as the post-order traversal filled it.
sortLA_unsorted(nodes, la) == la

\* qsort with compare_nodes: the entries in increasing order of name.
sortLA(nodes, la) ==
    [i \in 1..Len(la) |->
        la[CHOOSE k \in 1..Len(la) :
              Cardinality({j \in 1..Len(la) :
                             \/ nodes[la[j]].name < nodes[la[k]].name
                             \/ nodes[la[j]].name = nodes[la[k]].name /\ j < k}) = i - 1]]

prepare_rapid_TI(mytree) ==
    LET t == prepare_rapid_TI_post(prepare_rapid_TI_pre(mytree))
    IN  [t EXCEPT !.leaves = sortLA(t.a_nodes, t.leaves)]

\* set_leaf_bijection: the pair of trees with the .other members set.
RECURSIVE set_leaf_bijection_loop(_, _, _)
set_leaf_bijection_loop(tree1, tree2, i) ==
    IF i >= Len(tree1.leaves) THEN <<tree1, tree2>>
    ELSE set_leaf_bijection_loop(
             [tree1 EXCEPT !.a_nodes[tree1.leaves[i + 1]].other = tree2.leaves[i + 1]],
             [tree2 EXCEPT !.a_nodes[tree2.leaves[i + 1]].other = tree1.leaves[i + 1]],
             i + 1)

set_leaf_bijection(tree1, tree2) == set_leaf_bijection_loop(tree1, tree2, 0)

(***************************************************************************)
(* The alt-tree index without the HeavyPath Tree: add_leaf, reset_leaf.     *)
(* Each operator takes the alt-tree's a_nodes and yields them updated.      *)
(***************************************************************************)
RECURSIVE path_to_root_loop(_, _, _, _)
path_to_root_loop(nodes, n, i, pathlen) ==
    IF i > pathlen THEN <<>>
    ELSE <<n>> \o path_to_root_loop(nodes, nodes[n].neigh[1], i + 1, pathlen)

path_to_root(nodes, n) == path_to_root_loop(nodes, n, 0, nodes[n].depth)

RECURSIVE add_leaf_neigh(_, _, _, _, _, _)
\* add_leaf_neigh adding 1 to diff of the nodes off the path and dropping the
\* diff that was pending at their parent.
add_leaf_neigh_drops_pending(nodes, path, i, j, leaf, getset) ==
    LET p == path[i + 1]
        c == nodes[p].neigh[j + 1]
    IN  IF j >= nneigh(nodes, p) THEN nodes
        ELSE add_leaf_neigh(
                 IF c # path[i]
                 THEN [nodes EXCEPT ![c].diff = @ + 1,
                                    ![c].include = IF getset THEN Append(@, leaf) ELSE @]
                 ELSE nodes,
                 path, i, j + 1, leaf, getset)

\* for(j = startindex; j < path[i]->nneigh; j++): the nodes off the path.
add_leaf_neigh(nodes, path, i, j, leaf, getset) ==
    LET p == path[i + 1]
        c == nodes[p].neigh[j + 1]
    IN  IF j >= nneigh(nodes, p) THEN nodes
        ELSE add_leaf_neigh(
                 IF c # path[i]
                 THEN [nodes EXCEPT ![c].diff = @ + nodes[p].diff + 1,
                                    ![c].include = IF getset THEN Append(@, leaf) ELSE @]
                 ELSE nodes,
                 path, i, j + 1, leaf, getset)

\* for(i = leaf->depth; i > 0; i--): from the root down to the leaf's parent.
RECURSIVE add_leaf_loop(_, _, _, _, _)
add_leaf_loop(nodes, path, i, leaf, getset) ==
    IF i <= 0 THEN nodes
    ELSE LET p == path[i + 1]
             n1 == [nodes EXCEPT ![p].d_lazy = @ + nodes[p].diff - 1,
                                 ![p].exclude = IF getset THEN Append(@, leaf) ELSE @]
             n2 == [n1 EXCEPT ![path[i]].diff = @ + n1[p].diff]
             startindex == IF n2[p].depth = 0 THEN 0 ELSE 1
             n3 == add_leaf_neigh(n2, path, i, startindex, leaf, getset)
         IN  add_leaf_loop([n3 EXCEPT ![p].diff = 0], path, i - 1, leaf, getset)

RECURSIVE update_dminmax_neigh(_, _, _)
\* update_dminmax_neigh without the children's pending diff.
update_dminmax_neigh_no_diff(nodes, v, j) ==
    IF j >= nneigh(nodes, v) THEN nodes
    ELSE LET c == nodes[v].neigh[j + 1]
         IN  update_dminmax_neigh(
                 [nodes EXCEPT ![v].d_min = min(@, nodes[c].d_min),
                               ![v].d_max = max(@, nodes[c].d_max)],
                 v, j + 1)

update_dminmax_neigh(nodes, v, j) ==
    IF j >= nneigh(nodes, v) THEN nodes
    ELSE LET c == nodes[v].neigh[j + 1]
         IN  update_dminmax_neigh(
                 [nodes EXCEPT ![v].d_min = min(@, nodes[c].d_min + nodes[c].diff),
                               ![v].d_max = max(@, nodes[c].d_max + nodes[c].diff)],
                 v, j + 1)

RECURSIVE update_dminmax_loop(_, _, _, _)
update_dminmax_loop(nodes, path, i, pathlength) ==
    IF i >= pathlength THEN nodes
    ELSE LET v == path[i + 1]
             n1 == [nodes EXCEPT ![v].d_min = nodes[v].d_lazy,
                                 ![v].d_max = nodes[v].d_lazy]
             startind == IF n1[v].depth = 0 THEN 0 ELSE 1
         IN  update_dminmax_loop(update_dminmax_neigh(n1, v, startind),
                                 path, i + 1, pathlength)

update_dminmax_on_path(nodes, path, pathlength) ==
    update_dminmax_loop(
        [nodes EXCEPT ![path[1]].d_min = nodes[path[1]].d_lazy,
                      ![path[1]].d_max = nodes[path[1]].d_lazy],
        path, 1, pathlength)

\* add_leaf that stops at the leaf's parent.
add_leaf_stops_short(nodes, leaf, getset) ==
    LET path == path_to_root(nodes, leaf)
        n1 == add_leaf_loop(nodes, path, nodes[leaf].depth, leaf, getset)
    IN  update_dminmax_on_path(n1, path, nodes[leaf].depth + 1)

add_leaf(nodes, leaf, getset) ==
    LET path == path_to_root(nodes, leaf)
        n1 == add_leaf_loop(nodes, path, nodes[leaf].depth, leaf, getset)
        n2 == [n1 EXCEPT ![leaf].d_lazy = @ + n1[leaf].diff - 1,
                         ![leaf].diff = 0,
                         ![leaf].exclude = IF getset THEN Append(@, leaf) ELSE @]
    IN  update_dminmax_on_path(n2, path, nodes[leaf].depth + 1)

\* for(i = 1; i < n->nneigh; i++) if(n->neigh[i] != pathchild)
RECURSIVE reset_leaf_neigh(_, _, _, _, _)
\* reset_leaf_neigh that clears the sets and leaves diff.
reset_leaf_neigh_keeps_diff(nodes, n, i, pathchild, getset) ==
    IF i >= nneigh(nodes, n) THEN nodes
    ELSE LET c == nodes[n].neigh[i + 1]
         IN  reset_leaf_neigh(
                 IF c # pathchild
                 THEN [nodes EXCEPT ![c].include = IF getset THEN <<>> ELSE @]
                 ELSE nodes,
                 n, i + 1, pathchild, getset)

reset_leaf_neigh(nodes, n, i, pathchild, getset) ==
    IF i >= nneigh(nodes, n) THEN nodes
    ELSE LET c == nodes[n].neigh[i + 1]
         IN  reset_leaf_neigh(
                 IF c # pathchild
                 THEN [nodes EXCEPT ![c].diff = 0,
                                    ![c].include = IF getset THEN <<>> ELSE @]
                 ELSE nodes,
                 n, i + 1, pathchild, getset)

\* while(1): n climbs from the leaf; the source sets pathchild to the node it
\* has just climbed to.
RECURSIVE reset_leaf_loop(_, _, _, _)
reset_leaf_loop(nodes, n, pathchild, getset) ==
    LET n1 == [nodes EXCEPT ![n].d_lazy = nodes[n].subtreesize,
                            ![n].d_max = nodes[n].subtreesize,
                            ![n].d_min = 1,
                            ![n].diff = 0,
                            ![n].exclude = IF getset THEN <<>> ELSE @]
        n2 == IF nneigh(n1, n) # 1
              THEN reset_leaf_neigh(n1, n, 1, pathchild, getset) ELSE n1
        first == n2[n].neigh[1]
    IN  IF nneigh(n1, n) # 1 /\ n2[n].depth = 0
        THEN [n2 EXCEPT ![first].diff = 0,
                        ![first].include = IF getset THEN <<>> ELSE @]
        ELSE reset_leaf_loop(n2, first, first, getset)

reset_leaf(nodes, leaf, getset) == reset_leaf_loop(nodes, leaf, NULL, getset)

(***************************************************************************)
(* The HeavyPath Tree.  struct Path; the construction threads a record      *)
(*   [paths, nodes, maxdepth, ret]                                          *)
(* of the Paths allocated so far (a Path's index is its allocation order),  *)
(* the alt-tree's a_nodes (for node->path), *maxdepth and the Path the      *)
(* call returns.  The NULL child_heavypaths is the empty sequence.          *)
(***************************************************************************)
\* new_Path that does not start the two diffs at 0.
new_Path_diffs_not_cleared ==
    [left |-> NULL, right |-> NULL, parent |-> NULL, sibling |-> NULL,
     node |-> NULL,
     child_heavypaths |-> <<>>, num_child_paths |-> 0, parent_heavypath |-> NULL,
     total_depth |-> 0, num_hpt_leaves |-> 0,
     diff_path |-> 1, diff_subtree |-> 1,
     d_min_path |-> 1, d_min_subtree |-> 1,
     d_max_path |-> 0, d_max_subtree |-> 1,
     include_subtree |-> <<>>, include_path |-> <<>>,
     exclude |-> <<>>, exclude_path |-> <<>>]

new_Path ==
    [left |-> NULL, right |-> NULL, parent |-> NULL, sibling |-> NULL,
     node |-> NULL,
     child_heavypaths |-> <<>>, num_child_paths |-> 0, parent_heavypath |-> NULL,
     total_depth |-> 0, num_hpt_leaves |-> 0,
     diff_path |-> 0, diff_subtree |-> 0,
     d_min_path |-> 1, d_min_subtree |-> 1,
     d_max_path |-> 0, d_max_subtree |-> 1,
     include_subtree |-> <<>>, include_path |-> <<>>,
     exclude |-> <<>>, exclude_path |-> <<>>]

RECURSIVE get_heavypath_length(_, _)
get_heavypath_length(nodes, n) ==
    IF nneigh(nodes, n) = 1 THEN 1
    ELSE 1 + get_heavypath_length(nodes, nodes[n].heavychild)

RECURSIVE get_heavypath_loop(_, _, _, _)
get_heavypath_loop(nodes, current, i, length) ==
    IF i >= length THEN <<>>
    ELSE <<current>> \o get_heavypath_loop(nodes, nodes[current].heavychild, i + 1, length)

get_heavypath(nodes, root) ==
    get_heavypath_loop(nodes, root, 0, get_heavypath_length(nodes, root))

RECURSIVE heavy_decomposition(_, _, _), partition_heavypath(_, _, _)
RECURSIVE heavypath_leaf(_, _, _), heavypath_leaf_loop(_, _, _, _, _, _)

\* heavypath_leaf that leaves num_hpt_leaves of the Path of an alt-tree leaf
\* as new_Path set it.
heavypath_leaf_counts_no_leaf(hd, node, depth) ==
    LET newpath == Len(hd.paths) + 1
        size == hd.nodes[node].subtreesize
        isroot == hd.nodes[node].depth = 0
        fresh == [new_Path EXCEPT !.total_depth = depth, !.node = node,
                                  !.d_max_path = size]
        hd0 == [hd EXCEPT !.paths = Append(@, fresh), !.nodes[node].path = newpath]
    IN  IF nneigh(hd.nodes, node) > 1
        THEN LET num == (nneigh(hd.nodes, node) - 2) + (IF isroot THEN 1 ELSE 0)
                 hd1 == [hd0 EXCEPT
                           !.paths[newpath].num_child_paths = num,
                           !.paths[newpath].child_heavypaths = [k \in 1..num |-> NULL],
                           !.paths[newpath].d_min_subtree = INT_MAX,
                           !.paths[newpath].d_max_subtree = INT_MIN,
                           !.paths[newpath].num_hpt_leaves = 0]
                 hd2 == heavypath_leaf_loop(hd1, node, newpath, depth,
                                            IF isroot THEN 0 ELSE 1, 0)
             IN  [hd2 EXCEPT !.ret = newpath,
                             !.paths[newpath].d_min_path = size,
                             !.paths[newpath].d_max_path = size]
        ELSE [hd0 EXCEPT !.ret = newpath,
                         !.maxdepth = max(depth, @)]

\* heavypath_leaf allocating an entry of child_heavypaths for every neighbour
\* but one, whether the node is the root or not.
heavypath_leaf_one_entry_more(hd, node, depth) ==
    LET newpath == Len(hd.paths) + 1
        size == hd.nodes[node].subtreesize
        isroot == hd.nodes[node].depth = 0
        fresh == [new_Path EXCEPT !.total_depth = depth, !.node = node,
                                  !.d_max_path = size]
        hd0 == [hd EXCEPT !.paths = Append(@, fresh), !.nodes[node].path = newpath]
    IN  IF nneigh(hd.nodes, node) > 1
        THEN LET num == nneigh(hd.nodes, node) - 1
                 hd1 == [hd0 EXCEPT
                           !.paths[newpath].num_child_paths = num,
                           !.paths[newpath].child_heavypaths = [k \in 1..num |-> NULL],
                           !.paths[newpath].d_min_subtree = INT_MAX,
                           !.paths[newpath].d_max_subtree = INT_MIN,
                           !.paths[newpath].num_hpt_leaves = 0]
                 hd2 == heavypath_leaf_loop(hd1, node, newpath, depth,
                                            IF isroot THEN 0 ELSE 1, 0)
             IN  [hd2 EXCEPT !.ret = newpath,
                             !.paths[newpath].d_min_path = size,
                             !.paths[newpath].d_max_path = size]
        ELSE [hd0 EXCEPT !.ret = newpath,
                         !.maxdepth = max(depth, @),
                         !.paths[newpath].num_hpt_leaves = 1]

\* heavy_decomposition handing depth + 1 to the Path it makes for the root of
\* the heavy path.
heavy_decomposition_one_deeper(hd, root, depth) ==
    LET heavypath == get_heavypath(hd.nodes, root)
    IN  IF Len(heavypath) = 1
        THEN heavypath_leaf(hd, heavypath[1], depth + 1)
        ELSE partition_heavypath(hd, heavypath, depth + 1)

heavy_decomposition(hd, root, depth) ==
    LET heavypath == get_heavypath(hd.nodes, root)
    IN  IF Len(heavypath) = 1
        THEN heavypath_leaf(hd, heavypath[1], depth)
        ELSE partition_heavypath(hd, heavypath, depth)

\* l1 = ceil(length/2), where length/2 is a division of two ints.
partition_heavypath(hd, heavypath, depth) ==
    LET newpath == Len(hd.paths) + 1
        length == Len(heavypath)
        l1 == length \div 2
        l2 == length - l1
        \* the Path of heavypath[first .. first + len - 1]
        half(h, first, len) ==
            IF len = 1
            THEN heavypath_leaf(h, heavypath[first], depth + 1)
            ELSE partition_heavypath(h, SubSeq(heavypath, first, first + len - 1),
                                     depth + 1)
        set_left(a) ==
            [a EXCEPT !.paths[newpath].left = a.ret,
                      !.paths[a.ret].parent = newpath]
        set_right(left, b, P) ==
            [b EXCEPT
               !.ret = newpath,
               !.paths = [P EXCEPT
                  ![newpath].right = b.ret,
                  ![b.ret].parent = newpath,
                  ![b.ret].sibling = left,
                  ![left].sibling = b.ret,
                  ![newpath].d_min_path = min(P[left].d_min_path, P[b.ret].d_min_path),
                  ![newpath].d_max_path = max(P[left].d_max_path, P[b.ret].d_max_path),
                  ![newpath].d_max_subtree =
                      max(P[left].d_max_subtree, P[b.ret].d_max_subtree),
                  ![newpath].num_hpt_leaves =
                      P[left].num_hpt_leaves + P[b.ret].num_hpt_leaves]]
        right_half(left, b) == set_right(left, b, b.paths)
        left_half(a) == right_half(a.ret, half(set_left(a), l1 + 1, l2))
    IN  left_half(half([hd EXCEPT !.paths =
                           Append(@, [new_Path EXCEPT !.total_depth = depth])],
                       1, l1))

\* while(i_neigh < node->nneigh): j indexes the child heavypaths.
heavypath_leaf_loop(hd, node, newpath, depth, i_neigh, j) ==
    LET set_child(c, P) ==
            [c EXCEPT !.paths = [P EXCEPT
                ![newpath].child_heavypaths[j + 1] = c.ret,
                ![c.ret].parent_heavypath = newpath,
                ![newpath].num_hpt_leaves = @ + P[c.ret].num_hpt_leaves,
                ![newpath].d_min_subtree =
                    min3(@, P[c.ret].d_min_path, P[c.ret].d_min_subtree),
                ![newpath].d_max_subtree =
                    max3(@, P[c.ret].d_max_path, P[c.ret].d_max_subtree)]]
        child(c) == set_child(c, c.paths)
    IN  IF i_neigh >= nneigh(hd.nodes, node) THEN hd
        ELSE IF hd.nodes[node].neigh[i_neigh + 1] # hd.nodes[node].heavychild
        THEN heavypath_leaf_loop(
                 child(heavy_decomposition(hd, hd.nodes[node].neigh[i_neigh + 1],
                                           depth + 1)),
                 node, newpath, depth, i_neigh + 1, j + 1)
        ELSE heavypath_leaf_loop(hd, node, newpath, depth, i_neigh + 1, j)

heavypath_leaf(hd, node, depth) ==
    LET newpath == Len(hd.paths) + 1
        size == hd.nodes[node].subtreesize
        isroot == hd.nodes[node].depth = 0
        fresh == [new_Path EXCEPT !.total_depth = depth, !.node = node,
                                  !.d_max_path = size]
        hd0 == [hd EXCEPT !.paths = Append(@, fresh), !.nodes[node].path = newpath]
    IN  IF nneigh(hd.nodes, node) > 1
        THEN LET num == (nneigh(hd.nodes, node) - 2) + (IF isroot THEN 1 ELSE 0)
                 hd1 == [hd0 EXCEPT
                           !.paths[newpath].num_child_paths = num,
                           !.paths[newpath].child_heavypaths = [k \in 1..num |-> NULL],
                           !.paths[newpath].d_min_subtree = INT_MAX,
                           !.paths[newpath].d_max_subtree = INT_MIN,
                           !.paths[newpath].num_hpt_leaves = 0]
                 hd2 == heavypath_leaf_loop(hd1, node, newpath, depth,
                                            IF isroot THEN 0 ELSE 1, 0)
             IN  [hd2 EXCEPT !.ret = newpath,
                             !.paths[newpath].d_min_path = size,
                             !.paths[newpath].d_max_path = size]
        ELSE [hd0 EXCEPT !.ret = newpath,
                         !.maxdepth = max(depth, @),
                         !.paths[newpath].num_hpt_leaves = 1]

\* The result also carries the path_to_root array the call allocates:
\* maxdepth + 1 entries, zeroed.
do_heavy_decomposition(nodes, root) ==
    LET result(hd) ==
            [paths |-> hd.paths, nodes |-> hd.nodes, heavypath_root |-> hd.ret,
             path_to_root_p |-> [k \in 1..(hd.maxdepth + 1) |-> NULL]]
    IN  result(heavy_decomposition(
                   [paths |-> <<>>, nodes |-> nodes, maxdepth |-> 0, ret |-> NULL],
                   root, 0))
(***************************************************************************)
(* Updating and querying the HeavyPath Tree.  P is the sequence of Paths.   *)
(***************************************************************************)
is_HPT_leaf(P, n) == P[n].node # NULL /\ P[n].child_heavypaths = <<>>

get_ti_min(P, path) ==
    min(P[path].d_min_path + P[path].diff_path,
        P[path].d_min_subtree + P[path].diff_subtree)

get_ti_min_mod(P, path, accum_path, accum_subtree) ==
    IF P[path].node # NULL /\ P[path].num_child_paths = 0
    THEN P[path].d_min_path + P[path].diff_path + accum_path
    ELSE min(P[path].d_min_path + P[path].diff_path + accum_path,
             P[path].d_min_subtree + P[path].diff_subtree + accum_subtree)

\* get_ti_max without the path's own maximum.
get_ti_max_subtree_only(P, path) ==
    IF P[path].node # NULL /\ P[path].num_child_paths = 0
    THEN P[path].d_max_path + P[path].diff_path
    ELSE P[path].d_max_subtree + P[path].diff_subtree

get_ti_max(P, path) ==
    IF P[path].node # NULL /\ P[path].num_child_paths = 0
    THEN P[path].d_max_path + P[path].diff_path
    ELSE max(P[path].d_max_path + P[path].diff_path,
             P[path].d_max_subtree + P[path].diff_subtree)

get_ti_max_mod(P, path, accum_path, accum_subtree) ==
    max(P[path].d_max_path + P[path].diff_path + accum_path,
        P[path].d_max_subtree + P[path].diff_subtree + accum_subtree)

get_ti_x_mod(P, path, accum_path, accum_subtree, usemax) ==
    IF usemax THEN get_ti_max_mod(P, path, accum_path, accum_subtree)
    ELSE get_ti_min_mod(P, path, accum_path, accum_subtree)

\* The Paths from w up to the root of the HPT, each PT followed to its root.
RECURSIVE get_path_to_root_HPT(_, _)
get_path_to_root_HPT(P, w) ==
    IF w = NULL THEN <<>>
    ELSE <<w>> \o get_path_to_root_HPT(P, IF P[w].parent = NULL
                                           THEN P[w].parent_heavypath
                                           ELSE P[w].parent)

\* The same walk, written into the shared path_to_root array: the entries
\* after the end of the walk keep what an earlier call left there.
set_path_to_root_HPT(P, leaf, path_to_root_p) ==
    LET walk == get_path_to_root_HPT(P, leaf)
    IN  [k \in 1..Len(path_to_root_p) |->
            IF k <= Len(walk) THEN walk[k] ELSE path_to_root_p[k]]

RECURSIVE get_HPT_root_loop(_, _)
get_HPT_root_loop(P, node) ==
    IF P[node].parent # NULL THEN get_HPT_root_loop(P, P[node].parent)
    ELSE IF P[node].parent_heavypath # NULL
    THEN get_HPT_root_loop(P, P[node].parent_heavypath)
    ELSE node

get_HPT_root(P, nodes, leaf) == get_HPT_root_loop(P, nodes[leaf].path)

\* for(j = 0; j < path[i]->num_child_paths; j++), on the way down.
RECURSIVE add_leaf_HPT_children(_, _, _, _, _)
\* add_leaf_HPT_children that includes the leaf for the child on the path too.
add_leaf_HPT_children_all(P, path, i, j, leaf) ==
    LET w == path[i + 1]
        c == P[w].child_heavypaths[j + 1]
        P1 == [P EXCEPT ![c].diff_path = @ + P[w].diff_subtree + 1,
                        ![c].diff_subtree = @ + P[w].diff_subtree + 1,
                        ![c].include_subtree = Append(@, leaf),
                        ![c].include_path = Append(@, leaf)]
    IN  IF j >= P[w].num_child_paths THEN P
        ELSE add_leaf_HPT_children(P1, path, i, j + 1, leaf)

\* add_leaf_HPT_children pushing diff_path of the PT leaf into diff_path of
\* its child heavypaths.
add_leaf_HPT_children_path_diff(P, path, i, j, leaf) ==
    LET w == path[i + 1]
        c == P[w].child_heavypaths[j + 1]
        P1 == [P EXCEPT ![c].diff_path = @ + P[w].diff_path,
                        ![c].diff_subtree = @ + P[w].diff_subtree]
        P2 == IF c # path[i]
              THEN [P1 EXCEPT ![c].include_subtree = Append(@, leaf),
                              ![c].include_path = Append(@, leaf),
                              ![c].diff_path = @ + 1,
                              ![c].diff_subtree = @ + 1]
              ELSE P1
    IN  IF j >= P[w].num_child_paths THEN P
        ELSE add_leaf_HPT_children(P2, path, i, j + 1, leaf)

add_leaf_HPT_children(P, path, i, j, leaf) ==
    LET w == path[i + 1]
        c == P[w].child_heavypaths[j + 1]
        P1 == [P EXCEPT ![c].diff_path = @ + P[w].diff_subtree,
                        ![c].diff_subtree = @ + P[w].diff_subtree]
        P2 == IF c # path[i]
              THEN [P1 EXCEPT ![c].include_subtree = Append(@, leaf),
                              ![c].include_path = Append(@, leaf),
                              ![c].diff_path = @ + 1,
                              ![c].diff_subtree = @ + 1]
              ELSE P1
    IN  IF j >= P[w].num_child_paths THEN P
        ELSE add_leaf_HPT_children(P2, path, i, j + 1, leaf)

RECURSIVE add_leaf_HPT_down(_, _, _, _)
\* add_leaf_HPT_down taking the leaf off num_hpt_leaves of the Path it is at,
\* as if the field counted the leaves not yet excluded.
add_leaf_HPT_down_counts_down(P, path, i, leaf) ==
    IF i <= 0 THEN P
    ELSE LET w == path[i + 1]
             below == path[i]
             left == P[w].left
             right == P[w].right
             Q == [P EXCEPT ![w].exclude = Append(@, leaf)]
             Q1 == add_leaf_HPT_children(Q, path, i, 0, leaf)
             R == [P EXCEPT ![below].diff_path = @ + P[w].diff_path,
                            ![below].diff_subtree = @ + P[w].diff_subtree]
             P1 == IF P[w].node # NULL
                   THEN [Q1 EXCEPT
                           ![w].d_min_path = @ + Q1[w].diff_path - 1,
                           ![w].d_max_path = Q1[w].d_min_path + Q1[w].diff_path - 1]
                   ELSE IF below = right
                   THEN [R EXCEPT
                           ![left].include_subtree = Append(@, leaf),
                           ![left].exclude_path = Append(@, leaf),
                           ![left].diff_path = @ + R[w].diff_path - 1,
                           ![left].diff_subtree = @ + R[w].diff_subtree + 1]
                   ELSE [R EXCEPT
                           ![right].include_path = Append(@, leaf),
                           ![right].include_subtree = Append(@, leaf),
                           ![right].diff_path = @ + R[w].diff_path + 1,
                           ![right].diff_subtree = @ + R[w].diff_subtree + 1]
         IN  add_leaf_HPT_down([P1 EXCEPT ![w].diff_path = 0, ![w].diff_subtree = 0,
                                           ![w].num_hpt_leaves = @ - 1],
                               path, i - 1, leaf)

\* add_leaf_HPT_down adding 1 to diff_path of the left sibling, as it does to
\* that of the right one, where the code takes 1 off.
add_leaf_HPT_down_left_gains(P, path, i, leaf) ==
    IF i <= 0 THEN P
    ELSE LET w == path[i + 1]
             below == path[i]
             left == P[w].left
             right == P[w].right
             Q == [P EXCEPT ![w].exclude = Append(@, leaf)]
             Q1 == add_leaf_HPT_children(Q, path, i, 0, leaf)
             R == [P EXCEPT ![below].diff_path = @ + P[w].diff_path,
                            ![below].diff_subtree = @ + P[w].diff_subtree]
             P1 == IF P[w].node # NULL
                   THEN [Q1 EXCEPT
                           ![w].d_min_path = @ + Q1[w].diff_path - 1,
                           ![w].d_max_path = Q1[w].d_min_path + Q1[w].diff_path - 1]
                   ELSE IF below = right
                   THEN [R EXCEPT
                           ![left].include_subtree = Append(@, leaf),
                           ![left].exclude_path = Append(@, leaf),
                           ![left].diff_path = @ + R[w].diff_path + 1,
                           ![left].diff_subtree = @ + R[w].diff_subtree + 1]
                   ELSE [R EXCEPT
                           ![right].include_path = Append(@, leaf),
                           ![right].include_subtree = Append(@, leaf),
                           ![right].diff_path = @ + R[w].diff_path + 1,
                           ![right].diff_subtree = @ + R[w].diff_subtree + 1]
         IN  add_leaf_HPT_down([P1 EXCEPT ![w].diff_path = 0, ![w].diff_subtree = 0],
                               path, i - 1, leaf)

\* for(i = pathlen-1; i > 0; i--): from the root to the parent of the leaf.
add_leaf_HPT_down(P, path, i, leaf) ==
    IF i <= 0 THEN P
    ELSE LET w == path[i + 1]
             below == path[i]
             left == P[w].left
             right == P[w].right
             Q == [P EXCEPT ![w].exclude = Append(@, leaf)]
             Q1 == add_leaf_HPT_children(Q, path, i, 0, leaf)
             R == [P EXCEPT ![below].diff_path = @ + P[w].diff_path,
                            ![below].diff_subtree = @ + P[w].diff_subtree]
             P1 == IF P[w].node # NULL
                   THEN [Q1 EXCEPT
                           ![w].d_min_path = @ + Q1[w].diff_path - 1,
                           ![w].d_max_path = Q1[w].d_min_path + Q1[w].diff_path - 1]
                   ELSE IF below = right
                   THEN [R EXCEPT
                           ![left].include_subtree = Append(@, leaf),
                           ![left].exclude_path = Append(@, leaf),
                           ![left].diff_path = @ + R[w].diff_path - 1,
                           ![left].diff_subtree = @ + R[w].diff_subtree + 1]
                   ELSE [R EXCEPT
                           ![right].include_path = Append(@, leaf),
                           ![right].include_subtree = Append(@, leaf),
                           ![right].diff_path = @ + R[w].diff_path + 1,
                           ![right].diff_subtree = @ + R[w].diff_subtree + 1]
         IN  add_leaf_HPT_down([P1 EXCEPT ![w].diff_path = 0, ![w].diff_subtree = 0],
                               path, i - 1, leaf)

\* for(j = 0; j < path[i]->num_child_paths; j++), on the way up.
RECURSIVE add_leaf_HPT_fold(_, _, _)
add_leaf_HPT_fold(P, w, j) ==
    LET c == P[w].child_heavypaths[j + 1]
    IN  IF j >= P[w].num_child_paths THEN P
        ELSE add_leaf_HPT_fold(
                 IF is_HPT_leaf(P, c)
                 THEN [P EXCEPT
                         ![w].d_min_subtree = min(@, P[c].d_min_path + P[c].diff_path),
                         ![w].d_max_subtree = max(@, P[c].d_max_path + P[c].diff_path)]
                 ELSE [P EXCEPT
                         ![w].d_min_subtree = min3(@, P[c].d_min_path + P[c].diff_path,
                                                   P[c].d_min_subtree + P[c].diff_path),
                         ![w].d_max_subtree = max3(@, P[c].d_max_path + P[c].diff_path,
                                                   P[c].d_max_subtree + P[c].diff_path)],
                 w, j + 1)

\* for(i = 1; i < pathlen; i++): up the path, updating the min and max values.
RECURSIVE add_leaf_HPT_up(_, _, _, _)
add_leaf_HPT_up(P, path, i, pathlen) ==
    IF i >= pathlen THEN P
    ELSE LET w == path[i + 1]
             l == P[w].left
             r == P[w].right
             c0 == P[w].child_heavypaths[1]
             P1 == IF P[w].child_heavypaths # <<>>
                   THEN add_leaf_HPT_fold(
                            [P EXCEPT ![w].d_min_subtree = P[c0].d_min_path + P[c0].diff_path,
                                      ![w].d_max_subtree = P[c0].d_max_path + P[c0].diff_path],
                            w, 0)
                   ELSE LET sub == IF is_HPT_leaf(P, l)
                                   THEN <<P[r].d_min_subtree + P[r].diff_subtree,
                                          P[r].d_max_subtree + P[r].diff_subtree>>
                                   ELSE IF is_HPT_leaf(P, r)
                                   THEN <<P[l].d_min_subtree + P[l].diff_subtree,
                                          P[l].d_max_subtree + P[l].diff_subtree>>
                                   ELSE <<min(P[l].d_min_subtree + P[l].diff_subtree,
                                              P[r].d_min_subtree + P[r].diff_subtree),
                                          max(P[l].d_max_subtree + P[l].diff_subtree,
                                              P[r].d_max_subtree + P[r].diff_subtree)>>
                        IN  [P EXCEPT
                               ![w].d_min_path = min(P[l].d_min_path + P[l].diff_path,
                                                     P[r].d_min_path + P[r].diff_path),
                               ![w].d_max_path = max(P[l].d_max_path + P[l].diff_path,
                                                     P[r].d_max_path + P[r].diff_path),
                               ![w].d_min_subtree = sub[1],
                               ![w].d_max_subtree = sub[2]]
         IN  add_leaf_HPT_up(P1, path, i + 1, pathlen)

\* add_leaf_HPT leaving the diffs pushed down to the leaf's Path in place.
add_leaf_HPT_keeps_leaf_diff(P, path_to_root_p, nodes, leaf) ==
    LET path == set_path_to_root_HPT(P, nodes[leaf].path, path_to_root_p)
        pathlen == P[path[1]].total_depth + 1
        P1 == add_leaf_HPT_down(P, path, pathlen - 1, leaf)
        w == path[1]
        P2 == [P1 EXCEPT ![w].exclude = Append(@, leaf),
                         ![w].d_min_path = @ + P1[w].diff_path - 1,
                         ![w].d_max_path = P1[w].d_min_path + P1[w].diff_path - 1]
    IN  [paths |-> add_leaf_HPT_up(P2, path, 1, pathlen), path_to_root_p |-> path]

\* add_leaf_HPT that does not put the leaf in exclude of its own Path.
add_leaf_HPT_leaf_not_excluded(P, path_to_root_p, nodes, leaf) ==
    LET path == set_path_to_root_HPT(P, nodes[leaf].path, path_to_root_p)
        pathlen == P[path[1]].total_depth + 1
        P1 == add_leaf_HPT_down(P, path, pathlen - 1, leaf)
        w == path[1]
        P2 == [P1 EXCEPT ![w].d_min_path = @ + P1[w].diff_path - 1,
                         ![w].d_max_path = P1[w].d_min_path + P1[w].diff_path - 1,
                         ![w].diff_path = 0,
                         ![w].diff_subtree = 0]
    IN  [paths |-> add_leaf_HPT_up(P2, path, 1, pathlen), path_to_root_p |-> path]

\* Yields the Paths and the path_to_root array as the call leaves them.
add_leaf_HPT(P, path_to_root_p, nodes, leaf) ==
    LET path == set_path_to_root_HPT(P, nodes[leaf].path, path_to_root_p)
        pathlen == P[path[1]].total_depth + 1
        P1 == add_leaf_HPT_down(P, path, pathlen - 1, leaf)
        w == path[1]
        P2 == [P1 EXCEPT ![w].exclude = Append(@, leaf),
                         ![w].d_min_path = @ + P1[w].diff_path - 1,
                         ![w].d_max_path = P1[w].d_min_path + P1[w].diff_path - 1,
                         ![w].diff_path = 0,
                         ![w].diff_subtree = 0]
    IN  [paths |-> add_leaf_HPT_up(P2, path, 1, pathlen), path_to_root_p |-> path]

RECURSIVE reset_leaf_HPT_children(_, _, _, _)
\* reset_leaf_HPT_children that clears the sets and leaves the diffs.
reset_leaf_HPT_children_keeps_diff(P, w, i, lastw) ==
    LET c == P[w].child_heavypaths[i + 1]
    IN  IF i >= P[w].num_child_paths THEN P
        ELSE reset_leaf_HPT_children(
                 IF c # lastw
                 THEN [P EXCEPT ![c].include_subtree = <<>>, ![c].include_path = <<>>]
                 ELSE P,
                 w, i + 1, lastw)

reset_leaf_HPT_children(P, w, i, lastw) ==
    LET c == P[w].child_heavypaths[i + 1]
    IN  IF i >= P[w].num_child_paths THEN P
        ELSE reset_leaf_HPT_children(
                 IF c # lastw
                 THEN [P EXCEPT ![c].diff_path = 0, ![c].diff_subtree = 0,
                                ![c].include_subtree = <<>>, ![c].include_path = <<>>]
                 ELSE P,
                 w, i + 1, lastw)

\* while(w->parent != NULL): up one PT; yields <<Paths, the PT's root>>.
RECURSIVE reset_leaf_HPT_PT(_, _)
reset_leaf_HPT_PT(P, w0) ==
    IF P[w0].parent = NULL THEN <<P, w0>>
    ELSE LET w == P[w0].parent
             l == P[w].left
             r == P[w].right
             P1 == [P EXCEPT
                      ![w].exclude = <<>>,
                      ![w].diff_path = 0,
                      ![w].diff_subtree = 0,
                      ![w].d_min_path = min(P[l].d_min_path, P[r].d_min_path),
                      ![w].d_max_path = max(P[l].d_max_path, P[r].d_max_path),
                      ![w].d_min_subtree = 1,
                      ![w].d_max_subtree = max(P[l].d_max_subtree, P[r].d_max_subtree)]
             P2 == [P1 EXCEPT
                      ![l].diff_path = 0, ![l].diff_subtree = 0,
                      ![r].diff_path = 0, ![r].diff_subtree = 0,
                      ![r].exclude_path = <<>>, ![r].include_subtree = <<>>,
                      ![r].include_path = <<>>,
                      ![l].exclude_path = <<>>, ![l].include_subtree = <<>>,
                      ![l].include_path = <<>>]
         IN  reset_leaf_HPT_PT(P2, w)

\* while(w != NULL): up between the PTs.
RECURSIVE reset_leaf_HPT_loop(_, _, _, _)
reset_leaf_HPT_loop(P, nodes, w, lastw) ==
    IF w = NULL THEN P
    ELSE LET size == nodes[P[w].node].subtreesize
             P1 == [P EXCEPT ![w].diff_path = 0, ![w].diff_subtree = 0,
                             ![w].d_min_path = size, ![w].d_max_path = size]
             P2 == IF ~is_HPT_leaf(P1, w)
                   THEN reset_leaf_HPT_children(
                            [P1 EXCEPT
                               ![w].d_min_subtree = min(P1[lastw].d_min_path, P1[lastw].d_min_subtree),
                               ![w].d_max_subtree = max(P1[lastw].d_max_path, P1[lastw].d_max_subtree)],
                            w, 0, lastw)
                   ELSE P1
             up == reset_leaf_HPT_PT([P2 EXCEPT ![w].exclude = <<>>], w)
         IN  reset_leaf_HPT_loop(up[1], nodes, P[up[2]].parent_heavypath, up[2])

reset_leaf_HPT(P, nodes, leaf) ==
    reset_leaf_HPT_loop(P, nodes, nodes[leaf].path, nodes[leaf].path)

(***************************************************************************)
(* Transfer sets from the HeavyPath Tree.  A NodeArray is a sequence of     *)
(* alt-tree nodes and its field i is the sequence's length.                 *)
(***************************************************************************)
\* for(i = 0; i < currentnode->num_child_paths; i++): st holds currentnode,
\* accum_path, accum_subtree and notfound, which the body may reassign.
RECURSIVE get_x_path_children(_, _, _, _, _)
get_x_path_children(P, st, i, target, usemax) ==
    LET c == P[st.currentnode].child_heavypaths[i + 1]
    IN  IF i >= P[st.currentnode].num_child_paths THEN st
        ELSE get_x_path_children(
                 P,
                 IF get_ti_x_mod(P, c, st.accum_subtree, st.accum_subtree, usemax) = target
                 THEN [currentnode |-> c, notfound |-> FALSE,
                       accum_path |-> P[c].diff_path + st.accum_subtree,
                       accum_subtree |-> P[c].diff_subtree + st.accum_subtree]
                 ELSE st,
                 i + 1, target, usemax)

RECURSIVE get_x_path_loop(_, _, _, _)
get_x_path_loop(P, st, target, usemax) ==
    LET cur == st.currentnode
        r == P[cur].right
        l == P[cur].left
        down == get_x_path_children(P, [st EXCEPT !.notfound = TRUE], 0, target, usemax)
    IN  IF r # NULL /\ get_ti_x_mod(P, r, st.accum_path, st.accum_subtree, usemax) = target
        THEN get_x_path_loop(P, [st EXCEPT !.currentnode = r,
                                           !.accum_path = @ + P[r].diff_path,
                                           !.accum_subtree = @ + P[r].diff_subtree],
                             target, usemax)
        ELSE IF l # NULL /\ get_ti_x_mod(P, l, st.accum_path, st.accum_subtree, usemax) = target
        THEN get_x_path_loop(P, [st EXCEPT !.currentnode = l,
                                           !.accum_path = @ + P[l].diff_path,
                                           !.accum_subtree = @ + P[l].diff_subtree],
                             target, usemax)
        ELSE IF P[cur].child_heavypaths # <<>>
        THEN IF down.notfound THEN down.currentnode
             ELSE get_x_path_loop(P, down, target, usemax)
        ELSE cur

get_x_path(P, hptroot, usemax) ==
    get_x_path_loop(P,
                    [currentnode |-> hptroot, notfound |-> TRUE,
                     accum_path |-> P[hptroot].diff_path,
                     accum_subtree |-> P[hptroot].diff_subtree],
                    IF usemax THEN get_ti_max(P, hptroot) ELSE get_ti_min(P, hptroot),
                    usemax)

get_min_path(P, hptroot) == get_x_path(P, hptroot, FALSE)

get_max_path(P, hptroot) == get_x_path(P, hptroot, TRUE)

\* Yields the nodes the call adds to transfer_set, in order.
RECURSIVE add_nonexcluded_from_HPT_subtree(_, _), add_nonexcluded_children(_, _, _)
\* add_nonexcluded_from_HPT_subtree without the test of the exclude array.
add_all_from_HPT_subtree(P, n) ==
    IF P[n].left = NULL /\ P[n].right = NULL /\ P[n].child_heavypaths = <<>>
    THEN <<P[n].node>>
    ELSE (IF P[n].left # NULL THEN add_nonexcluded_from_HPT_subtree(P, P[n].left) ELSE <<>>)
         \o (IF P[n].right # NULL THEN add_nonexcluded_from_HPT_subtree(P, P[n].right) ELSE <<>>)
         \o add_nonexcluded_children(P, n, 0)

add_nonexcluded_from_HPT_subtree(P, n) ==
    IF Len(P[n].exclude) = P[n].num_hpt_leaves THEN <<>>
    ELSE IF P[n].left = NULL /\ P[n].right = NULL /\ P[n].child_heavypaths = <<>>
    THEN <<P[n].node>>
    ELSE (IF P[n].left # NULL THEN add_nonexcluded_from_HPT_subtree(P, P[n].left) ELSE <<>>)
         \o (IF P[n].right # NULL THEN add_nonexcluded_from_HPT_subtree(P, P[n].right) ELSE <<>>)
         \o add_nonexcluded_children(P, n, 0)
add_nonexcluded_children(P, n, i) ==
    IF i >= P[n].num_child_paths THEN <<>>
    ELSE add_nonexcluded_from_HPT_subtree(P, P[n].child_heavypaths[i + 1])
         \o add_nonexcluded_children(P, n, i + 1)

\* for(i = 0; i <= n->total_depth; i++) of the min and of the max transfer set.
RECURSIVE get_transfer_set_ascent(_, _, _, _, _, _)
get_transfer_set_ascent(P, path, i, total_depth, in_PT, usemax) ==
    LET w == path[i + 1]
        still == in_PT /\ ~(i # 0 /\ P[w].num_child_paths # 0)
    IN  IF i > total_depth THEN <<>>
        ELSE (IF usemax
              THEN (IF still THEN P[w].exclude_path ELSE <<>>)
              ELSE (IF still THEN P[w].include_path ELSE P[w].include_subtree))
             \o get_transfer_set_ascent(P, path, i + 1, total_depth, still, usemax)

\* while(n->sibling): the subtrees to the right in this PT.
RECURSIVE get_min_transfer_set_siblings(_, _)
\* get_min_transfer_set_siblings that takes the sibling on either side.
get_min_transfer_set_both_sides(P, n) ==
    IF P[n].sibling = NULL THEN <<>>
    ELSE add_nonexcluded_from_HPT_subtree(P, P[n].sibling)
         \o get_min_transfer_set_siblings(P, P[n].parent)

get_min_transfer_set_siblings(P, n) ==
    IF P[n].sibling = NULL THEN <<>>
    ELSE (IF n = P[P[n].parent].left
          THEN add_nonexcluded_from_HPT_subtree(P, P[n].sibling) ELSE <<>>)
         \o get_min_transfer_set_siblings(P, P[n].parent)

get_min_transfer_set_for_node_HPT(P, n) ==
    get_transfer_set_ascent(P, get_path_to_root_HPT(P, n), 0, P[n].total_depth, TRUE, FALSE)
    \o add_nonexcluded_from_HPT_subtree(P, n)
    \o get_min_transfer_set_siblings(P, n)

RECURSIVE include_leaves_from_PT_siblings(_, _, _)
include_leaves_from_PT_siblings(P, n, i) ==
    LET hp == P[n].parent_heavypath
    IN  IF i >= P[hp].num_child_paths THEN <<>>
        ELSE (IF P[hp].child_heavypaths[i + 1] # n
              THEN add_nonexcluded_from_HPT_subtree(P, P[hp].child_heavypaths[i + 1])
              ELSE <<>>)
             \o include_leaves_from_PT_siblings(P, n, i + 1)

RECURSIVE include_leaves_from_ancestral_loop(_, _, _)
include_leaves_from_ancestral_loop(P, n, in_subree) ==
    IF P[n].total_depth = 0 THEN <<>>
    ELSE IF P[n].sibling # NULL
    THEN (IF ~in_subree \/ P[P[n].parent].right = n
          THEN add_nonexcluded_from_HPT_subtree(P, P[n].sibling) ELSE <<>>)
         \o include_leaves_from_ancestral_loop(P, P[n].parent, in_subree)
    ELSE include_leaves_from_PT_siblings(P, n, 0)
         \o include_leaves_from_ancestral_loop(P, P[n].parent_heavypath, FALSE)

include_leaves_from_ancestral_subtrees(P, n) ==
    include_leaves_from_ancestral_loop(P, n, TRUE)

get_max_transfer_set_for_node_HPT(P, n) ==
    get_transfer_set_ascent(P, get_path_to_root_HPT(P, n), 0, P[n].total_depth, TRUE, TRUE)
    \o P[n].exclude
    \o include_leaves_from_ancestral_subtrees(P, n)

get_transfer_set_for_node_HPT(P, n, usemax) ==
    IF usemax THEN get_max_transfer_set_for_node_HPT(P, n)
    ELSE get_min_transfer_set_for_node_HPT(P, n)

\* Yields the set and whether the function's assert held.
get_transfer_set_HPT(P, hptroot, nb_taxa) ==
    LET tmin == get_ti_min(P, hptroot)
        tmax == nb_taxa - get_ti_max(P, hptroot)
        set == IF tmin <= tmax
               THEN get_transfer_set_for_node_HPT(P, get_min_path(P, hptroot), FALSE)
               ELSE get_transfer_set_for_node_HPT(P, get_max_path(P, hptroot), TRUE)
    IN  [set |-> set,
         asserted |-> Len(set) = (IF tmin <= tmax THEN tmin ELSE tmax)]

(***************************************************************************)
(* The drivers.  compute_transfer_indices_fast (use_HPT = TRUE) and         *)
(* compute_transfer_indices_fast_BALANCED (use_HPT = FALSE) run on the same *)
(* pair of trees, step for step: their control flow (i, u) depends on       *)
(* ref_tree only.  The balanced run works on the d_lazy, d_min, d_max, diff,*)
(* include and exclude fields of alt_tree's nodes, the HPT run on the Paths.*)
(* What a run writes into ref_tree (ti_min and ti_max of a node,            *)
(* transfer_index of an edge) and its output array are kept per run.        *)
(***************************************************************************)
VARIABLES
    ref_tree, alt_tree,     \* the two trees, as prepare_rapid_TI leaves them
    getsets,                \* the argument of compute_transfer_indices_fast
    paths,                  \* the Paths of the HeavyPath Tree
    heavypath_root,         \* what do_heavy_decomposition returned
    path_to_root_p,         \* the array shared by the leaves of the HPT
    hpt_root,               \* add_heavy_path's local
    pc, i, u,               \* position, loop index and node of the drivers
    ti_min, ti_max,         \* [use_HPT][node of ref_tree]
    transfer_index,         \* [use_HPT][edge of ref_tree]
    transfer_indices,       \* [use_HPT]: the output array
    tset,                   \* the NodeArray get_transfer_set_HPT returned last
    added                   \* the alt-tree leaves added since the last reset

vars == <<ref_tree, alt_tree, getsets, paths, heavypath_root, path_to_root_p,
          hpt_root, pc, i, u, ti_min, ti_max, transfer_index, transfer_indices,
          tset, added>>

RefTrees == {prepare_rapid_TI(parse_nh_string(s, [k \in 1..NTaxa |-> k])) : s \in BinaryShapes(NTaxa)}

AltTrees ==
    {prepare_rapid_TI(parse_nh_string(s, p)) :
        s \in BinaryShapes(NTaxa) \cup PseudoRootShapes(NTaxa),
        p \in NamePermutations(NTaxa)}

\* The state when compute_transfer_indices_fast is entered.
Init ==
    /\ ref_tree \in RefTrees
    /\ alt_tree \in AltTrees
    /\ getsets \in BOOLEAN
    /\ paths = <<>>
    /\ heavypath_root = NULL
    /\ path_to_root_p = <<>>
    /\ hpt_root = NULL
    /\ pc = "start"
    /\ i = 0
    /\ u = NULL
    /\ ti_min = [use_HPT \in BOOLEAN |-> [n \in 1..ref_tree.nb_nodes |-> 0]]
    /\ ti_max = [use_HPT \in BOOLEAN |-> [n \in 1..ref_tree.nb_nodes |-> 0]]
    /\ transfer_index = [use_HPT \in BOOLEAN |-> [e \in 1..ref_tree.nb_edges |-> 0]]
    /\ transfer_indices = [use_HPT \in BOOLEAN |-> [e \in 1..ref_tree.nb_edges |-> 0]]
    /\ tset = <<>>
    /\ added = <<>>

\* set_leaf_bijection, do_heavy_decomposition, and the entry of the for loop.
compute_transfer_indices_fast ==
    /\ pc = "start"
    /\ \E bij \in {set_leaf_bijection(ref_tree, alt_tree)} :
       \E hd \in {do_heavy_decomposition(bij[2].a_nodes, bij[2].node0)} :
          /\ ref_tree' = bij[1]
          /\ alt_tree' = [bij[2] EXCEPT !.a_nodes = hd.nodes]
          /\ paths' = hd.paths
          /\ heavypath_root' = hd.heavypath_root
          /\ path_to_root_p' = hd.path_to_root_p
          /\ u' = bij[1].leaves[1]
          /\ hpt_root' = get_HPT_root(hd.paths, hd.nodes,
                                      bij[1].a_nodes[bij[1].leaves[1]].other)
    /\ i' = 0
    /\ pc' = "add"
    /\ UNCHANGED <<getsets, ti_min, ti_max, transfer_index, transfer_indices, tset, added>>

\* heavy_path_leaves handing over every leaf below n.
heavy_path_leaves_whole_subtree(nodes, n) ==
    IF nneigh(nodes, n) = 1 THEN <<nodes[n].other>>
    ELSE LET below == get_leaves_in_subtree(nodes, n)
         IN  [k \in 1..Len(below) |-> nodes[below[k]].other]

\* The alt-tree leaves one iteration of add_heavy_path's (reset_heavy_path's)
\* while loop hands to add_leaf (reset_leaf), in order.
heavy_path_leaves(nodes, n) ==
    IF nneigh(nodes, n) = 1 THEN <<nodes[n].other>>
    ELSE [k \in 1..Len(nodes[n].lightleaves) |-> nodes[nodes[n].lightleaves[k]].other]

RECURSIVE add_leaves(_, _, _)
add_leaves(st, leaves, k) ==
    IF k > Len(leaves) THEN st
    ELSE LET both(hpt) ==
                 [nodes |-> add_leaf(st.nodes, leaves[k], FALSE),
                  paths |-> hpt.paths,
                  path_to_root_p |-> hpt.path_to_root_p]
         IN  add_leaves(both(add_leaf_HPT(st.paths, st.path_to_root_p, st.nodes,
                                          leaves[k])),
                        leaves, k + 1)

\* add_heavy_path, one iteration of while(u) up to the recording of the TI.
add_heavy_path ==
    /\ pc = "add"
    /\ \E leaves \in {heavy_path_leaves(ref_tree.a_nodes, u)} :
       \E st \in {add_leaves([nodes |-> alt_tree.a_nodes, paths |-> paths,
                              path_to_root_p |-> path_to_root_p], leaves, 1)} :
       \E hmin \in {get_ti_min(st.paths, hpt_root)} :
       \E hmax \in {get_ti_max(st.paths, hpt_root)} :
       \E ts \in {IF getsets
                  THEN get_transfer_set_HPT(st.paths, hpt_root, alt_tree.nb_taxa)
                  ELSE [set |-> tset, asserted |-> TRUE]} :
          /\ alt_tree' = [alt_tree EXCEPT !.a_nodes = st.nodes]
          /\ paths' = st.paths
          /\ path_to_root_p' = st.path_to_root_p
          /\ added' = added \o leaves
          /\ ti_min' = [ti_min EXCEPT ![TRUE][u] = hmin,
                                      ![FALSE][u] = st.nodes[alt_tree.node0].d_min]
          /\ ti_max' = [ti_max EXCEPT ![TRUE][u] = hmax,
                                      ![FALSE][u] = st.nodes[alt_tree.node0].d_max]
          /\ tset' = ts.set
          /\ pc' = IF getsets /\ ~(ts.asserted
                                   /\ Len(ts.set) = min(hmin, alt_tree.nb_taxa - hmax))
                   THEN "abort" ELSE "up"
    /\ UNCHANGED <<ref_tree, getsets, heavypath_root, hpt_root, i, u,
                   transfer_index, transfer_indices>>

\* head_upwards climbing from a light child too.
head_upwards_from_light_child ==
    /\ pc = "up"
    /\ LET nodes == ref_tree.a_nodes
       IN  IF nodes[u].depth # 0
           THEN /\ u' = nodes[u].neigh[1]
                /\ pc' = "add"
           ELSE /\ u' = ref_tree.leaves[i + 1]
                /\ pc' = "reset"
    /\ UNCHANGED <<ref_tree, alt_tree, getsets, paths, heavypath_root, path_to_root_p,
                   hpt_root, i, ti_min, ti_max, transfer_index, transfer_indices,
                   tset, added>>

\* add_heavy_path, the end of the iteration: head upwards in ref_tree, or
\* return, and reset_heavy_path begins at the same leaf.
head_upwards ==
    /\ pc = "up"
    /\ LET nodes == ref_tree.a_nodes
       IN  IF nodes[u].depth # 0 /\ u = nodes[nodes[u].neigh[1]].heavychild
           THEN /\ u' = nodes[u].neigh[1]
                /\ pc' = "add"
           ELSE /\ u' = ref_tree.leaves[i + 1]
                /\ pc' = "reset"
    /\ UNCHANGED <<ref_tree, alt_tree, getsets, paths, heavypath_root, path_to_root_p,
                   hpt_root, i, ti_min, ti_max, transfer_index, transfer_indices,
                   tset, added>>

RECURSIVE reset_leaves(_, _, _)
reset_leaves(st, leaves, k) ==
    IF k > Len(leaves) THEN st
    ELSE reset_leaves([nodes |-> reset_leaf(st.nodes, leaves[k], FALSE),
                       paths |-> reset_leaf_HPT(st.paths, st.nodes, leaves[k])],
                      leaves, k + 1)

\* reset_heavy_path, one iteration of while(u); when it returns, the for loop
\* of the driver goes on to the next leaf and enters add_heavy_path.
reset_heavy_path ==
    /\ pc = "reset"
    /\ \E st \in {reset_leaves([nodes |-> alt_tree.a_nodes, paths |-> paths],
                               heavy_path_leaves(ref_tree.a_nodes, u), 1)} :
       LET nodes == ref_tree.a_nodes
           next == ref_tree.leaves[i + 2]
       IN  /\ alt_tree' = [alt_tree EXCEPT !.a_nodes = st.nodes]
           /\ paths' = st.paths
           /\ IF nodes[u].depth = 0 \/ u # nodes[nodes[u].neigh[1]].heavychild
              THEN /\ i' = i + 1
                   /\ added' = <<>>
                   /\ IF i + 1 < ref_tree.nb_taxa
                      THEN /\ u' = next
                           /\ hpt_root' = get_HPT_root(st.paths, st.nodes, nodes[next].other)
                           /\ pc' = "add"
                      ELSE /\ u' = NULL
                           /\ hpt_root' = hpt_root
                           /\ pc' = "edges"
              ELSE /\ u' = nodes[u].neigh[1]
                   /\ UNCHANGED <<i, added, hpt_root, pc>>
    /\ UNCHANGED <<ref_tree, getsets, heavypath_root, path_to_root_p,
                   ti_min, ti_max, transfer_index, transfer_indices, tset>>

\* u->br[0], the edge above a node other than the root: connect_to_father
\* stores an edge and the neighbour it leads to at the same index.
br0(tree, n) ==
    CHOOSE e \in 1..tree.nb_edges :
        {tree.a_edges[e].left, tree.a_edges[e].right} = {n, tree.a_nodes[n].neigh[1]}

\* set_edge_TI taking ti_min alone.
set_edge_TI_min_only(tree, edges, tmin, tmax, n, nb_taxa) ==
    IF tree.a_nodes[n].depth # 0
    THEN [edges EXCEPT ![br0(tree, n)] = tmin[n]]
    ELSE edges

\* set_edge_TI with the subtraction the other way round.
set_edge_TI_swapped(tree, edges, tmin, tmax, n, nb_taxa) ==
    IF tree.a_nodes[n].depth # 0
    THEN [edges EXCEPT ![br0(tree, n)] = min(tmin[n], tmax[n] - nb_taxa)]
    ELSE edges

\* set_edge_TI without the test for the root.
set_edge_TI_root_too(tree, edges, tmin, tmax, n, nb_taxa) ==
    [edges EXCEPT ![br0(tree, n)] = min(tmin[n], nb_taxa - tmax[n])]

set_edge_TI(tree, edges, tmin, tmax, n, nb_taxa) ==
    IF tree.a_nodes[n].depth # 0
    THEN [edges EXCEPT ![br0(tree, n)] = min(tmin[n], nb_taxa - tmax[n])]
    ELSE edges

RECURSIVE nodeTI_to_edgeTI_loop(_, _, _, _, _)
nodeTI_to_edgeTI_loop(tree, edges, tmin, tmax, k) ==
    IF k >= tree.nb_nodes THEN edges
    ELSE nodeTI_to_edgeTI_loop(tree, set_edge_TI(tree, edges, tmin, tmax, k + 1, tree.nb_taxa),
                               tmin, tmax, k + 1)

nodeTI_to_edgeTI ==
    /\ pc = "edges"
    /\ transfer_index' =
          [use_HPT \in BOOLEAN |->
              nodeTI_to_edgeTI_loop(ref_tree, transfer_index[use_HPT],
                                    ti_min[use_HPT], ti_max[use_HPT], 0)]
    /\ pc' = "array"
    /\ UNCHANGED <<ref_tree, alt_tree, getsets, paths, heavypath_root, path_to_root_p,
                   hpt_root, i, u, ti_min, ti_max, transfer_indices, tset, added>>

edgeTI_to_array ==
    /\ pc = "array"
    /\ transfer_indices' =
          [use_HPT \in BOOLEAN |->
              [e \in 1..ref_tree.nb_edges |-> transfer_index[use_HPT][e]]]
    /\ pc' = "done"
    /\ UNCHANGED <<ref_tree, alt_tree, getsets, paths, heavypath_root, path_to_root_p,
                   hpt_root, i, u, ti_min, ti_max, transfer_index, tset, added>>

Next ==
    \/ compute_transfer_indices_fast
    \/ add_heavy_path
    \/ head_upwards
    \/ reset_heavy_path
    \/ nodeTI_to_edgeTI
    \/ edgeTI_to_array

Spec == Init /\ [][Next]_vars

(***************************************************************************)
(* The drivers on two trees whose taxa differ: alt_tree carries NTaxa of    *)
(* the names 1..NTaxa + 1, so it has as many leaves as ref_tree and at most *)
(* one name ref_tree does not have.  Nothing but sortLA reads a name.       *)
(***************************************************************************)
NameChoices(n) ==
    {f \in [1..n -> 1..(n + 1)] : \A a, b \in 1..n : a < b => f[a] < f[b]}

OtherTaxaTrees ==
    {prepare_rapid_TI(parse_nh_string(s, p)) :
        s \in BinaryShapes(NTaxa) \cup PseudoRootShapes(NTaxa),
        p \in NameChoices(NTaxa)}

InitTaxa ==
    /\ ref_tree \in RefTrees
    /\ alt_tree \in OtherTaxaTrees
    /\ getsets \in BOOLEAN
    /\ paths = <<>>
    /\ heavypath_root = NULL
    /\ path_to_root_p = <<>>
    /\ hpt_root = NULL
    /\ pc = "start"
    /\ i = 0
    /\ u = NULL
    /\ ti_min = [use_HPT \in BOOLEAN |-> [n \in 1..ref_tree.nb_nodes |-> 0]]
    /\ ti_max = [use_HPT \in BOOLEAN |-> [n \in 1..ref_tree.nb_nodes |-> 0]]
    /\ transfer_index = [use_HPT \in BOOLEAN |-> [e \in 1..ref_tree.nb_edges |-> 0]]
    /\ transfer_indices = [use_HPT \in BOOLEAN |-> [e \in 1..ref_tree.nb_edges |-> 0]]
    /\ tset = <<>>
    /\ added = <<>>

SpecTaxa == InitTaxa /\ [][Next]_vars


(***************************************************************************)
(* complete_parse_nh and copy_tree_rapidTI on their own, on trees of any    *)
(* shape the parser takes: ref_tree is the tree as parse_nh_string returns  *)
(* it, then as prepare_rapid_TI leaves it; alt_tree becomes its copy.       *)
(* The one exit preparation can reach is                                    *)
(* addLeafLA's, on a LeafArray that is full: t->leaves has room for nb_taxa *)
(* leaves, concatinateLA allocates what it copies, and get_leaves_in_subtree*)
(* allocates u->subtreesize entries for what add_leaves_in_subtree adds.    *)
(***************************************************************************)
ParsedTrees ==
    {parse_nh_string(s, [k \in 1..NPrepTaxa |-> k]) :
        s \in UNION {AnyShapes(n) : n \in 2..NPrepTaxa}}

InitPrepare ==
    /\ ref_tree \in ParsedTrees
    /\ alt_tree = ref_tree
    /\ getsets = FALSE
    /\ paths = <<>>
    /\ heavypath_root = NULL
    /\ path_to_root_p = <<>>
    /\ hpt_root = NULL
    /\ pc = "parsed"
    /\ i = 0
    /\ u = NULL
    /\ ti_min = [use_HPT \in BOOLEAN |-> [n \in 1..ref_tree.nb_nodes |-> 0]]
    /\ ti_max = [use_HPT \in BOOLEAN |-> [n \in 1..ref_tree.nb_nodes |-> 0]]
    /\ transfer_index = [use_HPT \in BOOLEAN |-> [e \in 1..ref_tree.nb_edges |-> 0]]
    /\ transfer_indices = [use_HPT \in BOOLEAN |-> [e \in 1..ref_tree.nb_edges |-> 0]]
    /\ tset = <<>>
    /\ added = <<>>

\* addLeafLA finds the LeafArray of get_leaves_in_subtree(c) full, for a
\* child c of some node that setup_heavy_light_subtrees takes the leaves of.
addLeafLA_exits(tree) ==
    \E v \in 1..tree.nb_nodes :
        \E k \in 1..nneigh(tree.a_nodes, v) :
            LET c == tree.a_nodes[v].neigh[k]
            IN  /\ tree.a_nodes[c].depth = tree.a_nodes[v].depth + 1
                /\ c # tree.a_nodes[v].heavychild
                /\ Len(add_leaves_in_subtree(tree.a_nodes, c)) > tree.a_nodes[c].subtreesize

\* complete_parse_nh from the return of parse_nh_string on.
complete_parse_nh ==
    /\ pc = "parsed"
    /\ \E t \in {prepare_rapid_TI(ref_tree)} :
          /\ ref_tree' = t
          /\ pc' = IF addLeafLA_exits(t) THEN "exit" ELSE "prepared"
    /\ UNCHANGED <<alt_tree, getsets, paths, heavypath_root, path_to_root_p, hpt_root,
                   i, u, ti_min, ti_max, transfer_index, transfer_indices, tset, added>>

\* copy_node_rapidTI and copy_tree_rapidTI_rec on the node v of the old tree:
\* the copy has the id, the name, the neighbours and the numbers of the old
\* node, no .other, the heavychild of the old node, and lightleaves built
\* anew from the copy once the nodes below it are in place.
copy_tree_rapidTI_rec(nodes, v) ==
    [nodes[v] EXCEPT
        !.other = NULL,
        !.path = NULL,
        !.include = <<>>,
        !.exclude = <<>>,
        !.heavychild = IF nneigh(nodes, v) = 1 THEN NULL ELSE nodes[v].heavychild,
        !.lightleaves =
            IF nneigh(nodes, v) = 1 THEN <<v>>
            ELSE concat_lightleaves(nodes, v, IF nodes[v].depth = 0 THEN 0 ELSE 1,
                                    nodes[v].heavychild)]

\* The tree copy_tree_rapidTI returns.
copy_tree_rapidTI(oldt) ==
    [oldt EXCEPT !.a_nodes = [v \in 1..oldt.nb_nodes |->
                                 copy_tree_rapidTI_rec(oldt.a_nodes, v)]]

\* alt_tree becomes the copy of the prepared ref_tree.
copy_prepared_tree ==
    /\ pc = "prepared"
    /\ alt_tree' = copy_tree_rapidTI(ref_tree)
    /\ pc' = "copied"
    /\ UNCHANGED <<ref_tree, getsets, paths, heavypath_root, path_to_root_p, hpt_root,
                   i, u, ti_min, ti_max, transfer_index, transfer_indices, tset, added>>

NextPrepare == complete_parse_nh \/ copy_prepared_tree

SpecPrepare == InitPrepare /\ [][NextPrepare]_vars


(***************************************************************************)
(* add_leaf and add_leaf_HPT on their own: from the alt-tree as             *)
(* prepare_rapid_TI and do_heavy_decomposition leave it, any leaf not added *)
(* yet is added next, to the nodes and to the Paths alike.  getsets is the  *)
(* argument add_leaf is called with.                                        *)
(***************************************************************************)
LeafTrees ==
    {prepare_rapid_TI(parse_nh_string(s, [k \in 1..NLeafTaxa |-> k])) :
        s \in BinaryShapes(NLeafTaxa) \cup PseudoRootShapes(NLeafTaxa)}

InitLeaves ==
    /\ ref_tree \in LeafTrees
    /\ getsets \in BOOLEAN
    /\ \E hd \in {do_heavy_decomposition(ref_tree.a_nodes, ref_tree.node0)} :
          /\ alt_tree = [ref_tree EXCEPT !.a_nodes = hd.nodes]
          /\ paths = hd.paths
          /\ heavypath_root = hd.heavypath_root
          /\ path_to_root_p = hd.path_to_root_p
          /\ hpt_root = hd.heavypath_root
    /\ pc = "leaves"
    /\ i = 0
    /\ u = NULL
    /\ ti_min = [use_HPT \in BOOLEAN |-> [n \in 1..ref_tree.nb_nodes |-> 0]]
    /\ ti_max = [use_HPT \in BOOLEAN |-> [n \in 1..ref_tree.nb_nodes |-> 0]]
    /\ transfer_index = [use_HPT \in BOOLEAN |-> [e \in 1..ref_tree.nb_edges |-> 0]]
    /\ transfer_indices = [use_HPT \in BOOLEAN |-> [e \in 1..ref_tree.nb_edges |-> 0]]
    /\ tset = <<>>
    /\ added = <<>>

add_leaf_any ==
    /\ pc = "leaves"
    /\ \E k \in 1..Len(alt_tree.leaves) :
       \E leaf \in {alt_tree.leaves[k]} :
          /\ \A j \in 1..Len(added) : added[j] # leaf
          /\ \E hpt \in {add_leaf_HPT(paths, path_to_root_p, alt_tree.a_nodes, leaf)} :
                /\ paths' = hpt.paths
                /\ path_to_root_p' = hpt.path_to_root_p
          /\ alt_tree' = [alt_tree EXCEPT !.a_nodes = add_leaf(@, leaf, getsets)]
          /\ added' = Append(added, leaf)
    /\ UNCHANGED <<ref_tree, getsets, heavypath_root, hpt_root, pc, i, u,
                   ti_min, ti_max, transfer_index, transfer_indices, tset>>

NextLeaves == add_leaf_any

SpecLeaves == InitLeaves /\ [][NextLeaves]_vars

(***************************************************************************)
(* add_leaf / add_leaf_HPT and reset_leaf / reset_leaf_HPT called in any    *)
(* order: any leaf not added is added, any leaf that is added is reset.     *)
(* i counts the calls, MaxCalls of them at most.                            *)
(***************************************************************************)
MaxCalls == 5

InitCalls ==
    /\ ref_tree \in LeafTrees
    /\ getsets \in BOOLEAN
    /\ \E hd \in {do_heavy_decomposition(ref_tree.a_nodes, ref_tree.node0)} :
          /\ alt_tree = [ref_tree EXCEPT !.a_nodes = hd.nodes]
          /\ paths = hd.paths
          /\ heavypath_root = hd.heavypath_root
          /\ path_to_root_p = hd.path_to_root_p
          /\ hpt_root = hd.heavypath_root
    /\ pc = "calls"
    /\ i = 0
    /\ u = NULL
    /\ ti_min = [use_HPT \in BOOLEAN |-> [n \in 1..ref_tree.nb_nodes |-> 0]]
    /\ ti_max = [use_HPT \in BOOLEAN |-> [n \in 1..ref_tree.nb_nodes |-> 0]]
    /\ transfer_index = [use_HPT \in BOOLEAN |-> [e \in 1..ref_tree.nb_edges |-> 0]]
    /\ transfer_indices = [use_HPT \in BOOLEAN |-> [e \in 1..ref_tree.nb_edges |-> 0]]
    /\ tset = <<>>
    /\ added = <<>>

add_leaf_call ==
    /\ pc = "calls"
    /\ i < MaxCalls
    /\ i' = i + 1
    /\ \E k \in 1..Len(alt_tree.leaves) :
       \E leaf \in {alt_tree.leaves[k]} :
          /\ \A j \in 1..Len(added) : added[j] # leaf
          /\ \E hpt \in {add_leaf_HPT(paths, path_to_root_p, alt_tree.a_nodes, leaf)} :
                /\ paths' = hpt.paths
                /\ path_to_root_p' = hpt.path_to_root_p
          /\ alt_tree' = [alt_tree EXCEPT !.a_nodes = add_leaf(@, leaf, getsets)]
          /\ added' = Append(added, leaf)
    /\ UNCHANGED <<ref_tree, getsets, heavypath_root, hpt_root, pc, u,
                   ti_min, ti_max, transfer_index, transfer_indices, tset>>

reset_leaf_call ==
    /\ pc = "calls"
    /\ i < MaxCalls
    /\ i' = i + 1
    /\ \E k \in 1..Len(added) :
          /\ paths' = reset_leaf_HPT(paths, alt_tree.a_nodes, added[k])
          /\ alt_tree' = [alt_tree EXCEPT !.a_nodes = reset_leaf(@, added[k], getsets)]
          /\ added' = SubSeq(added, 1, k - 1) \o SubSeq(added, k + 1, Len(added))
    /\ UNCHANGED <<ref_tree, getsets, heavypath_root, path_to_root_p, hpt_root, pc, u,
                   ti_min, ti_max, transfer_index, transfer_indices, tset>>

NextCalls == add_leaf_call \/ reset_leaf_call

SpecCalls == InitCalls /\ [][NextCalls]_vars
(***************************************************************************)
(* What the computation is measured against: leaf sets and the transfer     *)
(* distance, from the shape of the trees alone.                             *)
(***************************************************************************)
Children(nodes, v) ==
    {nodes[v].neigh[k] : k \in (IF nodes[v].depth = 0 THEN 1 ELSE 2)..nneigh(nodes, v)}

\* The leaves (nodes) below v, v included.
RECURSIVE LeafSet(_, _)
LeafSet(nodes, v) ==
    IF nneigh(nodes, v) = 1 THEN {v}
    ELSE UNION {LeafSet(nodes, c) : c \in Children(nodes, v)}

LeafNames(nodes, v) == {nodes[x].name : x \in LeafSet(nodes, v)}

SymDiff(A, B) == Cardinality((A \ B) \cup (B \ A))

SetMin(S) == CHOOSE x \in S : \A y \in S : x <= y

SetMax(S) == CHOOSE x \in S : \A y \in S : x >= y

Range(s) == {s[k] : k \in 1..Len(s)}

\* The lower end of edge e of the reference tree: the node the edge is above.
EdgeChild(e) ==
    LET l == ref_tree.a_edges[e].left
        r == ref_tree.a_edges[e].right
    IN  IF ref_tree.a_nodes[l].depth > ref_tree.a_nodes[r].depth THEN l ELSE r

\* |S symdiff L(v)| for every node v of the alt-tree, S the leaves added.
AddedDistances ==
    {SymDiff(Range(added), LeafSet(alt_tree.a_nodes, v)) : v \in 1..alt_tree.nb_nodes}

\* C2: balanced mode, after add_leaf once for each leaf of a non-empty set S,
\* in any order, d_min and d_max of the alt-tree's root are the minimum and
\* the maximum of |S symdiff L(v)| over all nodes v of the alt-tree.
C2_RootDMinMax ==
    (pc = "leaves" /\ added # <<>>) =>
        /\ alt_tree.a_nodes[alt_tree.node0].d_min = SetMin(AddedDistances)
        /\ alt_tree.a_nodes[alt_tree.node0].d_max = SetMax(AddedDistances)

C2_Witness ==
    /\ pc = "leaves"
    /\ Len(added) = 2
    /\ nneigh(alt_tree.a_nodes, alt_tree.node0) = 2
    /\ alt_tree.a_nodes[alt_tree.node0].d_min = 0
    /\ alt_tree.a_nodes[alt_tree.node0].d_max = Len(added) + 1

\* C3: HPT mode, every alt-tree shape: after add_leaf_HPT once for each leaf
\* of a non-empty set S, in any order, get_ti_min and get_ti_max of the HPT's
\* root are the minimum and the maximum of |S symdiff L(v)| over all nodes v.
C3_RootTiMinMax ==
    (pc = "leaves" /\ added # <<>>) =>
        /\ get_ti_min(paths, heavypath_root) = SetMin(AddedDistances)
        /\ get_ti_max(paths, heavypath_root) = SetMax(AddedDistances)

C3_Witness ==
    /\ pc = "leaves"
    /\ Len(added) = 2
    /\ nneigh(alt_tree.a_nodes, alt_tree.node0) = 3
    /\ get_ti_min(paths, heavypath_root) = 1
    /\ get_ti_max(paths, heavypath_root) = 3

\* The transfer distance between node n of ref_tree and node v of alt_tree.
TransferDistance(n, v) ==
    SymDiff(LeafNames(ref_tree.a_nodes, n), LeafNames(alt_tree.a_nodes, v))

InternalNodes(tree) == {v \in 1..tree.nb_nodes : nneigh(tree.a_nodes, v) > 1}

\* The least of min(d, n - d) over the nodes v of alt_tree, d the transfer
\* distance between ref_tree's node n and v.
RootedTI(n) ==
    SetMin({min(TransferDistance(n, v), alt_tree.nb_taxa - TransferDistance(n, v)) :
               v \in 1..alt_tree.nb_nodes})

S3_ref == parse_nh_string(<< << << <<>>, <<>> >>, <<>> >>, <<>> >>, <<1, 2, 3, 4>>)

S3_alt == parse_nh_string(<< <<>>, << <<>>, << <<>>, <<>> >> >> >>, <<1, 2, 3, 4>>)

Topology(tree) ==
    [n \in 1..tree.nb_nodes |->
        [neigh |-> tree.a_nodes[n].neigh, name |-> tree.a_nodes[n].name]]

IsS3 == Topology(ref_tree) = Topology(S3_ref) /\ Topology(alt_tree) = Topology(S3_alt)

\* C5 (amended): in scenario S3, ref = (((a,b),c),d) and alt = (a,(b,(c,d))),
\* the transfer index of the ref edge above (a,b) is 0, in both modes: the
\* node (c,d) of alt is at distance n from {a,b}.
C5_S3IndexIsZero ==
    (pc = "done" /\ IsS3) =>
        \A e \in 1..ref_tree.nb_edges :
            LeafNames(ref_tree.a_nodes, EdgeChild(e)) = {1, 2} =>
                /\ transfer_indices[TRUE][e] = 0
                /\ transfer_indices[FALSE][e] = 0

\* C5 as stated: that index is 1.
C5_AsStated ==
    (pc = "done" /\ IsS3) =>
        \A e \in 1..ref_tree.nb_edges :
            LeafNames(ref_tree.a_nodes, EdgeChild(e)) = {1, 2} =>
                transfer_indices[TRUE][e] = 1

C5_Witness ==
    /\ pc = "done"
    /\ IsS3
    /\ \E e \in 1..ref_tree.nb_edges :
          /\ LeafNames(ref_tree.a_nodes, EdgeChild(e)) = {1, 2}
          /\ ti_min[TRUE][EdgeChild(e)] = 1
          /\ ti_max[TRUE][EdgeChild(e)] = 4

\* C6: after the full computation every edge's transfer index is at least 0
\* and at most n \div 2, in both modes.
C6_IndexInRange ==
    pc = "done" =>
        \A use_HPT \in BOOLEAN : \A e \in 1..ref_tree.nb_edges :
            /\ 0 <= transfer_indices[use_HPT][e]
            /\ transfer_indices[use_HPT][e] <= ref_tree.nb_taxa \div 2

\* An edge of index (n - 1) \div 2, the most a rooted transfer index can be.
C6_Witness ==
    /\ pc = "done"
    /\ \E e \in 1..ref_tree.nb_edges :
          /\ transfer_indices[TRUE][e] = (ref_tree.nb_taxa - 1) \div 2
          /\ transfer_indices[FALSE][e] = (ref_tree.nb_taxa - 1) \div 2

\* C7: every edge of ref_tree whose right end is a leaf has transfer index 0,
\* in both modes, for every alt-tree shape.
C7_TerminalEdgesZero ==
    pc = "done" =>
        \A use_HPT \in BOOLEAN : \A e \in 1..ref_tree.nb_edges :
            nneigh(ref_tree.a_nodes, EdgeChild(e)) = 1 =>
                transfer_indices[use_HPT][e] = 0

\* An alt-tree whose root has three children, and a run that left an internal
\* edge with a non-zero index beside the terminal ones.
C7_Witness ==
    /\ pc = "done"
    /\ nneigh(alt_tree.a_nodes, alt_tree.node0) = 3
    /\ \E e \in 1..ref_tree.nb_edges : transfer_indices[TRUE][e] # 0
    /\ \E e \in 1..ref_tree.nb_edges :
          /\ nneigh(ref_tree.a_nodes, EdgeChild(e)) = 1
          /\ transfer_indices[TRUE][e] = 0

\* C8 (amended): when transfer sets are requested, the transfer set
\* get_transfer_set_HPT computes for a terminal edge of ref_tree is empty
\* (whether or not the asserts that follow hold).
C8_TerminalSetEmpty ==
    (pc \in {"up", "abort"} /\ getsets /\ nneigh(ref_tree.a_nodes, u) = 1) =>
        tset = <<>>

\* C8 as stated: that set is the singleton of the leaf (of its image in
\* alt_tree, the set being one of alt-tree nodes).
C8_AsStated ==
    (pc \in {"up", "abort"} /\ getsets /\ nneigh(ref_tree.a_nodes, u) = 1) =>
        tset = <<ref_tree.a_nodes[u].other>>

\* A terminal edge met after other heavy paths have been added and reset.
C8_Witness ==
    /\ pc = "up"
    /\ getsets
    /\ nneigh(ref_tree.a_nodes, u) = 1
    /\ i = 2
    /\ ti_min[TRUE][u] = 0
    /\ tset = <<>>

\* C9: the asserts of get_transfer_set_HPT and the one of add_heavy_path never
\* fail: the set returned has min(ti_min, n - ti_max) elements.
C9_AssertsHold ==
    /\ pc # "abort"
    /\ (pc = "up" /\ getsets) =>
          Len(tset) = min(ti_min[TRUE][u], alt_tree.nb_taxa - ti_max[TRUE][u])

\* A non-empty set, from an alt-tree whose root has three children.
C9_Witness ==
    /\ pc = "up"
    /\ getsets
    /\ nneigh(alt_tree.a_nodes, alt_tree.node0) = 3
    /\ ti_min[TRUE][u] = 1
    /\ Len(tset) = 1

Fresh(n) ==
    /\ n.d_lazy = n.subtreesize
    /\ n.d_max = n.subtreesize
    /\ n.d_min = 1
    /\ n.diff = 0
    /\ n.include = <<>>
    /\ n.exclude = <<>>

\* C10: balanced mode, for every leaf of ref_tree: once add_heavy_path and
\* then reset_heavy_path have returned, every node of the alt-tree has
\* d_lazy = d_max = subtreesize, d_min = 1, diff = 0 and empty include and
\* exclude sets.
C10_ResetRestoresNodes ==
    (i > 0 /\ (pc = "edges" \/ (pc = "add" /\ nneigh(ref_tree.a_nodes, u) = 1))) =>
        \A v \in 1..alt_tree.nb_nodes : Fresh(alt_tree.a_nodes[v])

\* The heavy path of the whole of ref_tree has been added and reset.
C10_Witness ==
    /\ pc = "edges"
    /\ \A v \in 1..alt_tree.nb_nodes : Fresh(alt_tree.a_nodes[v])
    /\ ti_max[FALSE][ref_tree.node0] = ref_tree.nb_taxa - 1


(***************************************************************************)
(* Reset of the HeavyPath Tree.                                             *)
(***************************************************************************)
\* The driver is between two heavy paths of ref_tree: reset_heavy_path has
\* returned and add_heavy_path has not added a leaf yet.
BetweenHeavyPaths ==
    i > 0 /\ (pc = "edges" \/ (pc = "add" /\ nneigh(ref_tree.a_nodes, u) = 1))

\* The Paths as do_heavy_decomposition builds them for alt_tree.
FreshPaths == do_heavy_decomposition(alt_tree.a_nodes, alt_tree.node0).paths

\* C11: HPT mode, for every alt-tree shape, a root with three children
\* included: after add_heavy_path(u) and reset_heavy_path(u) every Path has
\* the values it had right after do_heavy_decomposition.
C11_AsStated == BetweenHeavyPaths => paths = FreshPaths

(***************************************************************************)
(* From node values to edge values.                                         *)
(***************************************************************************)
\* C12: once nodeTI_to_edgeTI has run, the edge above every node u of the
\* reference tree other than the root carries min(u.ti_min, n - u.ti_max),
\* and set_edge_TI on the root writes nothing.
C12_EdgeValues ==
    pc \in {"array", "done"} =>
        \A use_HPT \in BOOLEAN :
            /\ \A n \in 1..ref_tree.nb_nodes :
                  n # ref_tree.node0 =>
                      transfer_index[use_HPT][br0(ref_tree, n)] =
                          min(ti_min[use_HPT][n], ref_tree.nb_taxa - ti_max[use_HPT][n])
            /\ set_edge_TI(ref_tree, transfer_index[use_HPT], ti_min[use_HPT],
                           ti_max[use_HPT], ref_tree.node0, ref_tree.nb_taxa)
                  = transfer_index[use_HPT]

\* The edge above the first child of the root, br[0] of the root too, has a
\* value of its own, which the root's ti_min = 0 would overwrite.
C12_Witness ==
    /\ pc = "array"
    /\ ti_min[TRUE][ref_tree.node0] = 0
    /\ transfer_index[TRUE][br0(ref_tree, ref_tree.a_nodes[ref_tree.node0].neigh[1])] = 1

(***************************************************************************)
(* The main loop over the heavy paths of the reference tree.                *)
(***************************************************************************)
\* A node of ref_tree whose ti_min / ti_max no run has written yet: ti_max
\* starts at 0 and every value add_heavy_path records is at least 1 (the
\* alt-tree has a node whose leaf set differs from L(u)).
Unwritten(n) == \A use_HPT \in BOOLEAN : ti_max[use_HPT][n] = 0

C14_AddedIsLeafSet ==
    pc \in {"up", "abort"} =>
        /\ Range(added) =
              {ref_tree.a_nodes[x].other : x \in LeafSet(ref_tree.a_nodes, u)}
        /\ Cardinality(Range(added)) = Len(added)

\* At an internal node that is not the root, after its light leaves joined
\* those of its heavy child.
C14_Witness ==
    /\ pc = "up"
    /\ nneigh(ref_tree.a_nodes, u) = 3
    /\ ref_tree.a_nodes[u].depth = 1
    /\ Len(added) = 3
    /\ Len(ref_tree.a_nodes[u].lightleaves) = 1

(***************************************************************************)
(* Preparation of the trees.                                                *)
(***************************************************************************)
\* The leaves of a tree, as node indices.
Leaves(tree) == {x \in 1..tree.nb_nodes : nneigh(tree.a_nodes, x) = 1}

\* C15: after set_leaf_bijection on two trees with the same taxon set, .other
\* of every leaf of ref_tree is the leaf of alt_tree with the same name, and
\* the other way round: u.other.other = u for the leaves of both trees.
C15_LeafBijection ==
    pc # "start" =>
        /\ \A x \in Leaves(ref_tree) :
              LET y == ref_tree.a_nodes[x].other
              IN  /\ y \in Leaves(alt_tree)
                  /\ alt_tree.a_nodes[y].name = ref_tree.a_nodes[x].name
                  /\ alt_tree.a_nodes[y].other = x
        /\ \A y \in Leaves(alt_tree) :
              LET x == alt_tree.a_nodes[y].other
              IN  /\ x \in Leaves(ref_tree)
                  /\ ref_tree.a_nodes[x].name = alt_tree.a_nodes[y].name
                  /\ ref_tree.a_nodes[x].other = y

\* Two trees whose leaves come in different orders: the first leaf of
\* ref_tree in traversal order is paired with the last one of alt_tree.
C15_Witness ==
    /\ pc = "add"
    /\ i = 0
    /\ \E x \in Leaves(ref_tree) :
          /\ \A z \in Leaves(ref_tree) : x <= z
          /\ \A z \in Leaves(alt_tree) : z <= ref_tree.a_nodes[x].other

\* The names of the leaves of a tree in the order of its sorted leaf array.
SortedNames(tree) == [k \in 1..Len(tree.leaves) |-> tree.a_nodes[tree.leaves[k]].name]

\* C16: when the name-sorted leaf lists of the two trees are not element-wise
\* equal, the computation stops at the leaf bijection: it never gets past
\* set_leaf_bijection, so no leaf is paired and no transfer index is written.
C16_AsStated ==
    SortedNames(ref_tree) # SortedNames(alt_tree) => pc = "start"

\* C17: preparation does not complete on a tree that has a node other than
\* the root with more than 3 neighbours, or a root with more than 3 children
\* (neigh[0] of every node but the root is its parent in every tree the
\* parser builds).
C17_AsStated ==
    pc = "prepared" =>
        \A v \in 1..ref_tree.nb_nodes : nneigh(ref_tree.a_nodes, v) <= 3

\* The child of v with the largest subtreesize, the first such one in
\* neighbour order.
HeaviestChild(nodes, v) ==
    LET first == IF nodes[v].depth = 0 THEN 1 ELSE 2
        size(k) == nodes[nodes[v].neigh[k]].subtreesize
    IN  nodes[v].neigh[CHOOSE k \in first..nneigh(nodes, v) :
                           \A j \in first..nneigh(nodes, v) :
                               size(k) > size(j) \/ (size(k) = size(j) /\ k <= j)]

\* C18: in a prepared tree, heavychild of every internal node, the root with
\* two or three children included, is its child with the largest subtreesize,
\* the one with the lowest neighbour index among equals.
C18_AsStated ==
    \A tree \in {ref_tree, alt_tree} :
        \A v \in 1..tree.nb_nodes :
            nneigh(tree.a_nodes, v) > 1 =>
                tree.a_nodes[v].heavychild = HeaviestChild(tree.a_nodes, v)

\* A tree of the shape the drivers take: two children for every internal
\* node but the root, two or three for the root.
DriverShape(tree) ==
    \A v \in 1..tree.nb_nodes :
        IF v = tree.node0 THEN nneigh(tree.a_nodes, v) \in {2, 3}
        ELSE nneigh(tree.a_nodes, v) \in {1, 3}

\* lightleaves of v lists the leaves below the children of v other than
\* heavychild, each once, and nothing else; it is empty for a leaf.
LightLeavesAsSpecified(nodes, v) ==
    /\ Range(nodes[v].lightleaves) =
           UNION {LeafSet(nodes, c) : c \in Children(nodes, v) \ {nodes[v].heavychild}}
    /\ Cardinality(Range(nodes[v].lightleaves)) = Len(nodes[v].lightleaves)
    /\ nneigh(nodes, v) = 1 => nodes[v].lightleaves = <<>>

\* C19: in a tree prepare_rapid_TI prepared and in the copy copy_tree_rapidTI
\* made of it, lightleaves of every node is the set of leaves below its
\* non-heavy children, each once, and empty for a leaf.
C19_AsStated ==
    (pc = "copied" /\ DriverShape(ref_tree)) =>
        \A tree \in {ref_tree, alt_tree} :
            \A v \in 1..tree.nb_nodes : LightLeavesAsSpecified(tree.a_nodes, v)

(***************************************************************************)
(* The alt-tree index, balanced mode.                                       *)
(***************************************************************************)
\* v and the nodes above it, up to the root.
RECURSIVE AncestorsOrSelf(_, _)
AncestorsOrSelf(nodes, v) ==
    IF nodes[v].depth = 0 THEN {v}
    ELSE {v} \cup AncestorsOrSelf(nodes, nodes[v].neigh[1])

\* The sum of diff over the nodes of S.
RECURSIVE SumDiff(_, _)
SumDiff(nodes, S) ==
    IF S = {} THEN 0
    ELSE LET w == CHOOSE x \in S : TRUE
         IN  nodes[w].diff + SumDiff(nodes, S \ {w})

\* C20: balanced mode, from the fresh alt-tree, after add_leaf on each leaf of
\* a set S of distinct leaves (none yet, too): for every node v of the
\* alt-tree, d_lazy(v) plus diff of v and of every node above v is the size
\* of the symmetric difference of S and the leaves below v.
C20_LazyValue ==
    pc = "leaves" =>
        \A v \in 1..alt_tree.nb_nodes :
            alt_tree.a_nodes[v].d_lazy
                + SumDiff(alt_tree.a_nodes, AncestorsOrSelf(alt_tree.a_nodes, v))
            = SymDiff(Range(added), LeafSet(alt_tree.a_nodes, v))

\* Two leaves added, and an internal node off both their paths whose parent
\* had a diff pending when the second one was added.
C20_Witness ==
    /\ pc = "leaves"
    /\ Len(added) = 2
    /\ \E v \in 1..alt_tree.nb_nodes :
          /\ nneigh(alt_tree.a_nodes, v) = 3
          /\ alt_tree.a_nodes[v].depth = 2
          /\ alt_tree.a_nodes[v].diff = 2

(***************************************************************************)
(* The sweeps of add_leaf and add_leaf_HPT.                                 *)
(***************************************************************************)
\* The leaf of alt_tree the last call added.
LastAdded == added[Len(added)]

\* The Paths from the Path of the alt-tree node v up to the root of the HPT.
PathsAbove(v) == Range(get_path_to_root_HPT(paths, alt_tree.a_nodes[v].path))

\* C21: after add_leaf on a leaf, diff is 0 at every node of the alt-tree
\* from the root to that leaf; after add_leaf_HPT on it, diff_path and
\* diff_subtree are 0 at every Path from the leaf's Path to the root of the
\* HPT.
C21_SweptDiffsZero ==
    (pc = "leaves" /\ added # <<>>) =>
        /\ \A v \in AncestorsOrSelf(alt_tree.a_nodes, LastAdded) :
              alt_tree.a_nodes[v].diff = 0
        /\ \A p \in PathsAbove(LastAdded) :
              paths[p].diff_path = 0 /\ paths[p].diff_subtree = 0

\* Three leaves added, the last one two edges or more below the root, and a
\* node and a Path off all three paths that the three calls left a diff at.
C21_Witness ==
    /\ pc = "leaves"
    /\ Len(added) = 3
    /\ alt_tree.a_nodes[LastAdded].depth >= 2
    /\ \E v \in 1..alt_tree.nb_nodes : alt_tree.a_nodes[v].diff = 3
    /\ \E p \in 1..Len(paths) : paths[p].diff_path = 3 /\ paths[p].diff_subtree = 3

(***************************************************************************)
(* The HeavyPath Tree as do_heavy_decomposition builds it.                  *)
(***************************************************************************)
\* C22: from do_heavy_decomposition on, every node v of the alt-tree has a
\* Path whose node is v, and the Path of every leaf of the alt-tree is a leaf
\* of the HPT: no left, no right, no child_heavypaths, num_hpt_leaves = 1.
\* This is what verify_all_leaves_touched and the assertion on path[0] in
\* add_leaf_HPT test.
C22_NodePaths ==
    pc # "start" =>
        \A v \in 1..alt_tree.nb_nodes :
            LET p == alt_tree.a_nodes[v].path
            IN  /\ p \in 1..Len(paths)
                /\ paths[p].node = v
                /\ nneigh(alt_tree.a_nodes, v) = 1 =>
                      /\ paths[p].left = NULL
                      /\ paths[p].right = NULL
                      /\ paths[p].child_heavypaths = <<>>
                      /\ paths[p].num_hpt_leaves = 1

\* A pseudo-root alt-tree after a heavy path was added: one of its
\* leaves is a leaf of a PT of several Paths, another is a PT of its own.
C22_Witness ==
    /\ pc = "up"
    /\ nneigh(alt_tree.a_nodes, alt_tree.node0) = 3
    /\ \E v, w \in Leaves(alt_tree) :
          /\ paths[alt_tree.a_nodes[v].path].parent # NULL
          /\ paths[alt_tree.a_nodes[w].path].parent = NULL
          /\ paths[alt_tree.a_nodes[w].path].parent_heavypath # NULL

\* The nodes of the alt-tree at the leaves of the PT below the Path p: the
\* range of the heavy path that p stands for.
RECURSIVE PTNodes(_)
PTNodes(p) ==
    IF paths[p].node # NULL THEN {paths[p].node}
    ELSE PTNodes(paths[p].left) \cup PTNodes(paths[p].right)

\* C23: a Path that partition_heavypath made for a range of k nodes of a
\* heavy path has the first ceil(k/2) of them, from the top, below its left
\* child and the other k - ceil(k/2) below its right child.
C23_AsStated ==
    pc # "start" =>
        \A p \in 1..Len(paths) :
            paths[p].node = NULL =>
                LET k == Cardinality(PTNodes(p))
                    L == PTNodes(paths[p].left)
                    R == PTNodes(paths[p].right)
                IN  /\ Cardinality(L) = (k + 1) \div 2
                    /\ Cardinality(R) = k - (k + 1) \div 2
                    /\ \A a \in L, b \in R :
                          alt_tree.a_nodes[a].depth < alt_tree.a_nodes[b].depth

\* The root of the PT the Path p is in.
RECURSIVE PTRoot(_)
PTRoot(p) == IF paths[p].parent = NULL THEN p ELSE PTRoot(paths[p].parent)

\* The children of the alt-tree node v other than its heavy child.
LightChildren(v) ==
    Children(alt_tree.a_nodes, v) \ {alt_tree.a_nodes[v].heavychild}

\* The entries of child_heavypaths of the Path of v are the roots of the PTs
\* of the heavy paths that start at the children of v in Kids, one entry
\* each, and num_child_paths counts them.
ChildHeavypathsAre(v, Kids) ==
    LET p == alt_tree.a_nodes[v].path
        chp == paths[p].child_heavypaths
    IN  /\ Len(chp) = paths[p].num_child_paths
        /\ Len(chp) = Cardinality(Kids)
        /\ Range(chp) = {PTRoot(alt_tree.a_nodes[c].path) : c \in Kids}
        /\ Cardinality(Range(chp)) = Len(chp)

\* C24 as stated: child_heavypaths of an internal node has an entry for
\* every non-heavy child and, at the root of the alt-tree, one for the heavy
\* child as well.
C24_AsStated ==
    pc # "start" =>
        \A v \in InternalNodes(alt_tree) :
            ChildHeavypathsAre(v, IF v = alt_tree.node0
                                  THEN Children(alt_tree.a_nodes, v)
                                  ELSE LightChildren(v))

\* C24: child_heavypaths of an internal node of the alt-tree, the root
\* included, has one entry for every non-heavy child and none for the heavy
\* child, whose Path is in the PT of the node itself; num_child_paths is the
\* number of entries filled.
C24_ChildHeavypaths ==
    pc # "start" =>
        \A v \in InternalNodes(alt_tree) :
            /\ ChildHeavypathsAre(v, LightChildren(v))
            /\ PTRoot(alt_tree.a_nodes[alt_tree.a_nodes[v].heavychild].path)
                   = PTRoot(alt_tree.a_nodes[v].path)

\* A pseudo-root: two entries at the root, for its two non-heavy children.
C24_Witness ==
    /\ pc = "add"
    /\ nneigh(alt_tree.a_nodes, alt_tree.node0) = 3
    /\ paths[alt_tree.a_nodes[alt_tree.node0].path].num_child_paths = 2
    /\ \E v \in InternalNodes(alt_tree) :
          v # alt_tree.node0
          /\ paths[alt_tree.a_nodes[v].path].num_child_paths = 1

\* C25: the walk from any Path up to the root of the HPT, by parent inside a
\* PT and by parent_heavypath from the root of a PT, visits total_depth + 1
\* Paths and ends at the root of the HPT, which is what get_path_to_root_HPT
\* asserts; after add_leaf_HPT on a leaf, the first total_depth + 1 entries of
\* the path_to_root array are that walk from the leaf's Path, so the loops of
\* add_leaf_HPT run over the whole walk and over nothing else.
C25_PathLength ==
    pc = "leaves" =>
        /\ \A p \in 1..Len(paths) :
              LET walk == get_path_to_root_HPT(paths, p)
              IN  /\ Len(walk) = paths[p].total_depth + 1
                  /\ walk[Len(walk)] = heavypath_root
                  /\ Len(walk) <= Len(path_to_root_p)
        /\ added # <<>> =>
              LET w == alt_tree.a_nodes[LastAdded].path
              IN  SubSeq(path_to_root_p, 1, paths[w].total_depth + 1)
                      = get_path_to_root_HPT(paths, w)

\* The leaf added last is three Paths or more below the root of the HPT, in
\* another PT than the root, and the array still holds, past the end of its
\* walk, an entry of the longer walk of an earlier call.
C25_Witness ==
    /\ pc = "leaves"
    /\ added # <<>>
    /\ LET w == alt_tree.a_nodes[LastAdded].path
       IN  /\ paths[w].total_depth >= 3
           /\ PTRoot(w) # heavypath_root
           /\ Len(path_to_root_p) > paths[w].total_depth + 1
           /\ path_to_root_p[Len(path_to_root_p)] # NULL

(***************************************************************************)
(* What add_leaf, reset_leaf, add_leaf_HPT and reset_leaf_HPT leave alone.  *)
(***************************************************************************)
\* The fields of the nodes of a tree that are not part of the alt-tree index.
NodeFrame(tree) ==
    [v \in 1..tree.nb_nodes |->
        [name |-> tree.a_nodes[v].name, neigh |-> tree.a_nodes[v].neigh,
         depth |-> tree.a_nodes[v].depth, subtreesize |-> tree.a_nodes[v].subtreesize,
         heavychild |-> tree.a_nodes[v].heavychild,
         lightleaves |-> tree.a_nodes[v].lightleaves,
         other |-> tree.a_nodes[v].other, path |-> tree.a_nodes[v].path]]

\* The fields of the Paths that make the structure of the HPT.
PathFrame(P) ==
    [p \in 1..Len(P) |->
        [left |-> P[p].left, right |-> P[p].right, parent |-> P[p].parent,
         sibling |-> P[p].sibling, node |-> P[p].node,
         child_heavypaths |-> P[p].child_heavypaths,
         num_child_paths |-> P[p].num_child_paths,
         parent_heavypath |-> P[p].parent_heavypath,
         total_depth |-> P[p].total_depth,
         num_hpt_leaves |-> P[p].num_hpt_leaves]]

\* A step of add_heavy_path or reset_heavy_path leaves both trees and the
\* structure of the HPT as they are, the alt-tree index apart.
FramedStep ==
    pc \in {"add", "reset"} =>
        /\ ref_tree' = ref_tree
        /\ NodeFrame(alt_tree') = NodeFrame(alt_tree)
        /\ [alt_tree' EXCEPT !.a_nodes = <<>>] = [alt_tree EXCEPT !.a_nodes = <<>>]
        /\ PathFrame(paths') = PathFrame(paths)
        /\ heavypath_root' = heavypath_root

\* C26: the calls of add_leaf and add_leaf_HPT that add_heavy_path makes, and
\* those of reset_leaf and reset_leaf_HPT that reset_heavy_path makes, change
\* no node of ref_tree, no .other, no field of a node of alt_tree but d_lazy,
\* d_min, d_max, diff, include and exclude, nothing else of either tree, and
\* no structural field of a Path.
C26_Frame == [][FramedStep]_vars

\* After add_heavy_path on an internal node and a reset before it: nodes of
\* the alt-tree and Paths carry diffs and excluded leaves.
C26_Witness ==
    /\ pc = "up"
    /\ i >= 1
    /\ nneigh(ref_tree.a_nodes, u) = 3
    /\ \E v \in 1..alt_tree.nb_nodes : alt_tree.a_nodes[v].diff # 0
    /\ \E p \in 1..Len(paths) : paths[p].diff_subtree # 0 /\ paths[p].exclude # <<>>

(***************************************************************************)
(* The HPT under add_leaf_HPT and reset_leaf_HPT in any order.              *)
(***************************************************************************)
\* C27: whatever the calls of add_leaf_HPT and reset_leaf_HPT so far, both
\* diffs of the root of the HPT are 0, so that get_ti_min and get_ti_max of
\* the root are the least and the largest of its own two values.
C27_RootDiffsZero ==
    pc = "calls" =>
        /\ paths[heavypath_root].diff_path = 0
        /\ paths[heavypath_root].diff_subtree = 0
        /\ get_ti_min(paths, heavypath_root) =
               min(paths[heavypath_root].d_min_path, paths[heavypath_root].d_min_subtree)
        /\ get_ti_max(paths, heavypath_root) =
               max(paths[heavypath_root].d_max_path, paths[heavypath_root].d_max_subtree)

\* Three adds and a reset made, two leaves still added, and a diff pending at
\* a child of the root of the HPT.
C27_Witness ==
    /\ pc = "calls"
    /\ i = 4
    /\ Len(added) = 2
    /\ \E p \in 1..Len(paths) :
          /\ paths[p].parent = heavypath_root
          /\ paths[p].diff_subtree # 0
          /\ paths[p].diff_path # 0

\* C28: whatever the calls of add_leaf_HPT and reset_leaf_HPT so far, the two
\* diffs of the root of every PT are equal, so that adding diff_path to
\* d_min_subtree and d_max_subtree of a child heavypath, as the sweep up the
\* path does, gives what adding diff_subtree gives.
C28_PTRootDiffsEqual ==
    pc = "calls" =>
        \A p \in 1..Len(paths) :
            paths[p].parent = NULL => paths[p].diff_path = paths[p].diff_subtree

\* The root of a PT hanging from another has a diff pending, and a Path
\* inside a PT has two diffs that differ.
C28_Witness ==
    /\ pc = "calls"
    /\ i = 4
    /\ Len(added) = 2
    /\ \E p \in 1..Len(paths) :
          /\ paths[p].parent = NULL
          /\ paths[p].parent_heavypath # NULL
          /\ paths[p].node = NULL
          /\ paths[p].diff_path = 2
    /\ \E q \in 1..Len(paths) :
          paths[q].parent # NULL /\ paths[q].diff_path # paths[q].diff_subtree

(***************************************************************************)
(* The values the diffs of the HPT stand for.                               *)
(***************************************************************************)
\* p and the Paths above it in its own PT.
RECURSIVE PTAncestorsOrSelf(_)
PTAncestorsOrSelf(p) ==
    IF paths[p].parent = NULL THEN {p}
    ELSE {p} \cup PTAncestorsOrSelf(paths[p].parent)

\* The sum of diff_path over the Paths of S.
RECURSIVE SumDiffPath(_)
SumDiffPath(S) ==
    IF S = {} THEN 0
    ELSE LET w == CHOOSE x \in S : TRUE
         IN  paths[w].diff_path + SumDiffPath(S \ {w})

\* The sum of diff_subtree over the Paths of S.
RECURSIVE SumDiffSubtree(_)
SumDiffSubtree(S) ==
    IF S = {} THEN 0
    ELSE LET w == CHOOSE x \in S : TRUE
         IN  paths[w].diff_subtree + SumDiffSubtree(S \ {w})

\* The sum of diff_subtree over the Paths above the PT of p in the PTs that
\* enclose it: the PT leaf the PT of p hangs from, the Paths above that one
\* in its PT, and so on up to the root of the HPT.
RECURSIVE SumDiffEnclosing(_)
SumDiffEnclosing(p) ==
    LET up(w) == IF w = NULL THEN 0
                 ELSE SumDiffSubtree(PTAncestorsOrSelf(w)) + SumDiffEnclosing(w)
    IN  up(paths[PTRoot(p)].parent_heavypath)

\* C29: from the fresh HPT, after add_leaf_HPT on each leaf of a set S of
\* distinct leaves (none yet, too): every Path P with a node has d_min_path
\* equal to d_max_path, and d_min_path plus diff_path of P and of the Paths
\* above it in its PT, plus diff_subtree of the Paths above that PT in the
\* enclosing PTs, is the size of the symmetric difference of S and the leaves
\* below P's node.
C29_PathValue ==
    pc = "leaves" =>
        \A p \in 1..Len(paths) :
            paths[p].node # NULL =>
                /\ paths[p].d_min_path = paths[p].d_max_path
                /\ paths[p].d_min_path + SumDiffPath(PTAncestorsOrSelf(p))
                       + SumDiffEnclosing(p)
                   = SymDiff(Range(added), LeafSet(alt_tree.a_nodes, paths[p].node))

\* Two leaves or more added, and a Path with a node, inside a PT that hangs
\* from another, with diffs pending above it both in its own PT and in the
\* enclosing ones.
C29_Witness ==
    /\ pc = "leaves"
    /\ Len(added) >= 2
    /\ \E p \in 1..Len(paths) :
          /\ paths[p].node # NULL
          /\ paths[p].parent # NULL
          /\ SumDiffPath(PTAncestorsOrSelf(p)) # 0
          /\ SumDiffEnclosing(p) # 0

(***************************************************************************)
(* The exclude lists of the HPT.                                            *)
(***************************************************************************)
\* The leaves of the alt-tree that num_hpt_leaves of the Path p counts: the
\* node of p if p is a leaf of the HPT, the leaves below its child heavypaths
\* if p is another leaf of a PT, those below its two children otherwise.
RECURSIVE HPTLeaves(_)
HPTLeaves(p) ==
    IF paths[p].node = NULL
    THEN HPTLeaves(paths[p].left) \cup HPTLeaves(paths[p].right)
    ELSE IF paths[p].num_child_paths = 0 THEN {paths[p].node}
    ELSE UNION {HPTLeaves(paths[p].child_heavypaths[j]) :
                    j \in 1..paths[p].num_child_paths}

\* C30: from the fresh HPT, after add_leaf_HPT on each leaf of a set S of
\* distinct leaves (none yet, too): exclude of every Path P with a node has
\* no leaf twice and holds the leaves of S among those num_hpt_leaves of P
\* counts, so that it is no longer than num_hpt_leaves and as long exactly
\* when all those leaves are in S; exclude of a Path without a node is empty.
C30_ExcludeLists ==
    pc = "leaves" =>
        \A p \in 1..Len(paths) :
            IF paths[p].node = NULL THEN paths[p].exclude = <<>>
            ELSE /\ Cardinality(Range(paths[p].exclude)) = Len(paths[p].exclude)
                 /\ Range(paths[p].exclude) = Range(added) \cap HPTLeaves(p)
                 /\ Cardinality(HPTLeaves(p)) = paths[p].num_hpt_leaves
                 /\ Len(paths[p].exclude) <= paths[p].num_hpt_leaves
                 /\ Len(paths[p].exclude) = paths[p].num_hpt_leaves
                        <=> HPTLeaves(p) \subseteq Range(added)

\* A Path with a node and child heavypaths has all its HPT leaves in
\* exclude, another has one of its two or more, and a Path without a node
\* has every HPT leaf below it added.
C30_Witness ==
    /\ pc = "leaves"
    /\ \E p, q, r \in 1..Len(paths) :
          /\ paths[p].node # NULL
          /\ paths[p].num_child_paths >= 1
          /\ Len(paths[p].exclude) = paths[p].num_hpt_leaves
          /\ paths[q].node # NULL
          /\ paths[q].num_hpt_leaves >= 2
          /\ Len(paths[q].exclude) = 1
          /\ paths[r].node = NULL
          /\ HPTLeaves(r) \subseteq Range(added)
====
